---- MODULE Spec2Model ----
(***************************************************************************)
(* Per-learner goal-scoped memory store (gen_mentor/core/memory) and the   *)
(* workspace-wide user registry (apps/backend/services/user_registry).     *)
(*                                                                         *)
(* A Python dict is a TLA+ function whose DOMAIN is its set of string      *)
(* keys ({} is the empty function), a Python list is a sequence, None is   *)
(* the string "None", and a timestamp is an integer reading of the wall    *)
(* clock.  A file is absent, undecodable (empty or garbage bytes), or      *)
(* holds a JSON value.  Every key holds values of one type.                *)
(***************************************************************************)
EXTENDS Integers, Sequences, FiniteSets, TLC

VARIABLES
    fs,        \* fs[dir][file]: the documents under <workspace>/memory/<dir>/
    dirs,      \* directories that exist under <workspace>/memory/
    registry,  \* <workspace>/users.json
    req,       \* req[p]: the store call request p is executing, with its locals
    ret,       \* value returned by the last completed call
    last       \* the last completed call and its arguments

vars == <<fs, dirs, registry, req, ret, last>>

-----------------------------------------------------------------------------
(* Bounds of the model *)

MaxGoals == 2      \* goal records per ledger
MaxEntries == 2    \* entries per history / mastery list
MaxTime == 2       \* distinct wall-clock readings

(* Values *)

None == "None"
EmptyDict == <<>>
EmptyList == <<>>

Get(d, k, default) == IF k \in DOMAIN d THEN d[k] ELSE default

Put(d, k, v) == [x \in (DOMAIN d) \cup {k} |-> IF x = k THEN v ELSE d[x]]

Truthy(s) == s # None /\ s # ""

Times == 1..MaxTime

Root == "."
NoLearner == ""
Learners == {"learner_a", "learner_b", "test_learner"}
StoreIds == Learners \cup {NoLearner}
GoalIds == {"goal_d1_a1b2c3", "goal_d1_d4e5f6", "goal_d2_a1b2c3"}
GoalTexts == {"Learn Rust", "Learn Go"}

FileNames == {"profile.json", "learning_goal.json", "skill_gaps.json",
              "mastery.json", "learning_path.json", "chat_history.json"}

\* a file: missing, empty (just truncated), undecodable bytes, or a JSON value
Absent == [st |-> "absent"]
Empty == [st |-> "empty"]
Corrupt == [st |-> "corrupt"]
Ok(d) == [st |-> "ok", doc |-> d]

EmptyDir == [f \in FileNames |-> Absent]
EmptyFs == [d \in Learners \cup {Root} |-> EmptyDir]

-----------------------------------------------------------------------------
(* Document codec: json.dump / json.load *)

ArrayKeys == {"interests", "skill_gaps", "learning_path", "modules"}

PyList(items) == [kind |-> "list", items |-> items]
PyTuple(items) == [kind |-> "tuple", items |-> items]

\* json.dump writes a list and a tuple as the same JSON array
DumpArray(a) == [kind |-> "array", items |-> a.items]

\* json.load reads a JSON array as a list
LoadArray(a) == [kind |-> "list", items |-> a.items]

RECURSIVE JsonDump(_)
JsonDump(d) ==
    [k \in DOMAIN d |->
        IF k \in ArrayKeys THEN DumpArray(d[k])
        ELSE IF k \in GoalIds THEN JsonDump(d[k])
        ELSE d[k]]

RECURSIVE JsonLoad(_)
JsonLoad(d) ==
    [k \in DOMAIN d |->
        IF k \in ArrayKeys THEN LoadArray(d[k])
        ELSE IF k \in GoalIds THEN JsonLoad(d[k])
        ELSE d[k]]

\* a document without Python-only values (tuples)
RECURSIVE IsJson(_)
IsJson(d) ==
    \A k \in DOMAIN d :
        /\ k \in ArrayKeys => d[k].kind = "list"
        /\ k \in GoalIds => IsJson(d[k])

-----------------------------------------------------------------------------
(* Learner directory resolver: MemoryStore.__init__ / LearnerMemoryStore.__init__ *)

\* if learner_id: the learner-specific directory and file accessors are set
Scoped(learner_id) == learner_id # NoLearner

\* every store uses the workspace-level directory
memory_dir_Shared(learner_id) == Root

\* directory of the store's files
memory_dir(learner_id) == IF Scoped(learner_id) THEN learner_id ELSE Root

\* ensure_dir(workspace/memory) and ensure_dir(workspace/memory/<learner_id>)
ensure_dir(ds, learner_id) == ds \cup {Root, memory_dir(learner_id)}

\* every store has every file accessor
HasAttr_Always(learner_id, file) == TRUE

\* hasattr(self, '<name>_file'); history_file is set by the base class
HasAttr(learner_id, file) == Scoped(learner_id) \/ file = "chat_history.json"

\* every store opens the files of learner_a
FileOf_Shared(f, learner_id, file) == f["learner_a"][file]

FileOf(f, learner_id, file) == f[memory_dir(learner_id)][file]

\* open(path, 'w') and json.dump in one piece: the whole file is replaced
WriteFile(f, learner_id, file, json) ==
    IF HasAttr(learner_id, file)
    THEN [f EXCEPT ![memory_dir(learner_id)][file] = Ok(json)]
    ELSE f

\* the file exists and json.load succeeds
Readable(f, learner_id, file) ==
    HasAttr(learner_id, file) /\ FileOf(f, learner_id, file).st = "ok"

ReadDict(f, learner_id, file) ==
    IF Readable(f, learner_id, file)
    THEN JsonLoad(FileOf(f, learner_id, file).doc)
    ELSE EmptyDict

-----------------------------------------------------------------------------
(* Calls and return values *)

\* no call has completed yet
NoCall == [op |-> "none", l |-> NoLearner, goal |-> "", doc |-> EmptyDict]

\* a call of op on the store of l; every call record has the layout of NoCall
Call(op, l, goal, doc) == [NoCall EXCEPT !.op = op, !.l = l, !.goal = goal, !.doc = doc]

RetNone == [none |-> TRUE]
RetDict(d) == [dict |-> d]
RetList(s) == [list |-> s]
RetStr(s) == [str |-> s]
RetInt(n) == [int |-> n]
RetOpt(s) == IF s = None THEN RetNone ELSE RetStr(s)

-----------------------------------------------------------------------------
(* Interaction history log: chat_history.json *)

DumpList(h) == [i \in 1..Len(h) |-> JsonDump(h[i])]

LoadList(h) == [i \in 1..Len(h) |-> JsonLoad(h[i])]

read_history(f, l) ==
    IF Readable(f, l, "chat_history.json")
    THEN LoadList(FileOf(f, l, "chat_history.json").doc)
    ELSE EmptyList

write_history(f, l, history) == WriteFile(f, l, "chat_history.json", DumpList(history))

\* metadata is attached only when it is truthy
HistoryEntry(role, content, metadata, now) ==
    LET entry == [role |-> role, content |-> content, timestamp |-> now]
    IN  IF metadata # EmptyDict THEN Put(entry, "metadata", metadata) ELSE entry

\* the log is replaced by the new entry
AppendHistoryData_Reset(history, role, content, metadata, now) ==
    <<HistoryEntry(role, content, metadata, now)>>

AppendHistoryData(history, role, content, metadata, now) ==
    Append(history, HistoryEntry(role, content, metadata, now))

-----------------------------------------------------------------------------
(* Flat documents: profile.json, mastery.json, learning_path.json *)

read_profile(f, l) == ReadDict(f, l, "profile.json")

write_profile(f, l, content) == WriteFile(f, l, "profile.json", JsonDump(content))

read_mastery(f, l) == ReadDict(f, l, "mastery.json")

write_mastery(f, l, content) == WriteFile(f, l, "mastery.json", JsonDump(content))

read_learning_path(f, l) == ReadDict(f, l, "learning_path.json")

\* the learning path is written to the skill-gaps file
write_learning_path_WrongFile(f, l, content) ==
    WriteFile(f, l, "skill_gaps.json", JsonDump(content))

write_learning_path(f, l, content) == WriteFile(f, l, "learning_path.json", JsonDump(content))

\* entry gets a timestamp unless it carries one
Stamped(entry, now) ==
    IF "timestamp" \in DOMAIN entry THEN entry ELSE Put(entry, "timestamp", now)

\* the entries are replaced by the new entry
AppendMasteryData_Reset(existing, entry, now) ==
    Put(existing, "entries", <<Stamped(entry, now)>>)

AppendMasteryData(existing, entry, now) ==
    Put(existing, "entries",
        Append(Get(existing, "entries", EmptyList), Stamped(entry, now)))

\* the evaluation is logged among the entries as well
UpdateEvaluationsData_Cross(existing, evaluation, now) ==
    LET with_last == Put(existing, "last_evaluation", evaluation)
        with_entry == Put(with_last, "entries",
                          Append(Get(with_last, "entries", EmptyList), Stamped(evaluation, now)))
    IN  Put(with_entry, "evaluations_history",
            Append(Get(with_entry, "evaluations_history", EmptyList),
                   Stamped(evaluation, now)))

UpdateEvaluationsData(existing, evaluation, now) ==
    LET with_last == Put(existing, "last_evaluation", evaluation)
    IN  Put(with_last, "evaluations_history",
            Append(Get(with_last, "evaluations_history", EmptyList),
                   Stamped(evaluation, now)))

-----------------------------------------------------------------------------
(* Goal-scoped side tables: skill_gaps.json and the goal keys of learning_path.json *)

read_skill_gaps(f, l) == ReadDict(f, l, "skill_gaps.json")

write_skill_gaps(f, l, content) == WriteFile(f, l, "skill_gaps.json", JsonDump(content))

read_skill_gaps_for_goal(f, l, goal_id) == Get(read_skill_gaps(f, l), goal_id, EmptyDict)

read_learning_path_for_goal(f, l, goal_id) == Get(read_learning_path(f, l), goal_id, EmptyDict)

\* the table is rebuilt from the written goal alone
GoalScopedData_Fresh(all, goal_id, data, now) ==
    Put(EmptyDict, goal_id, Put(data, "updated_at", now))

\* data["updated_at"] = now; all[goal_id] = data
GoalScopedData(all, goal_id, data, now) == Put(all, goal_id, Put(data, "updated_at", now))

-----------------------------------------------------------------------------
(* Goal ledger: learning_goal.json *)

read_learning_goals(f, l) == ReadDict(f, l, "learning_goal.json")

write_learning_goals(f, l, content) == WriteFile(f, l, "learning_goal.json", JsonDump(content))

\* an unknown active_goal_id falls back to the last record
ActiveGoalOf_Fallback(goals_data) ==
    LET active_id == Get(goals_data, "active_goal_id", None)
        goals == Get(goals_data, "goals", EmptyList)
        hits == {i \in 1..Len(goals) : goals[i].goal_id = active_id}
    IN  IF ~Truthy(active_id) \/ goals = EmptyList
        THEN RetNone
        ELSE IF hits = {} THEN RetDict(goals[Len(goals)])
        ELSE RetDict(goals[CHOOSE i \in hits : \A j \in hits : i <= j])

\* first record of goals whose goal_id is active_goal_id, else None
ActiveGoalOf(goals_data) ==
    LET active_id == Get(goals_data, "active_goal_id", None)
        goals == Get(goals_data, "goals", EmptyList)
        hits == {i \in 1..Len(goals) : goals[i].goal_id = active_id}
    IN  IF ~Truthy(active_id) \/ hits = {}
        THEN RetNone
        ELSE RetDict(goals[CHOOSE i \in hits : \A j \in hits : i <= j])

ActiveGoalIdOf(goals_data) == RetOpt(Get(goals_data, "active_goal_id", None))

NewGoal(goal_id, learning_goal, refined_goal, now) ==
    [goal_id |-> goal_id, learning_goal |-> learning_goal,
     refined_goal |-> refined_goal, status |-> "active",
     created_at |-> now, updated_at |-> now]

Deactivate(goals) ==
    [i \in 1..Len(goals) |->
        IF goals[i].status = "active"
        THEN [goals[i] EXCEPT !.status = "inactive"]
        ELSE goals[i]]

\* earlier records keep their status
AddGoalData_NoDeactivate(goals_data, goal_id, learning_goal, refined_goal, now) ==
    LET goals == Get(goals_data, "goals", EmptyList)
        appended == Append(goals, NewGoal(goal_id, learning_goal, refined_goal, now))
    IN  Put(Put(goals_data, "goals", appended), "active_goal_id", goal_id)

\* the ledger add_goal writes, from the ledger it read
AddGoalData(goals_data, goal_id, learning_goal, refined_goal, now) ==
    LET goals == Get(goals_data, "goals", EmptyList)
        appended == Append(Deactivate(goals),
                           NewGoal(goal_id, learning_goal, refined_goal, now))
    IN  Put(Put(goals_data, "goals", appended), "active_goal_id", goal_id)

GoalsOf(f, l) == Get(read_learning_goals(f, l), "goals", EmptyList)

-----------------------------------------------------------------------------
(* Read-modify-write calls.  A call c carries its arguments: c.goal is the  *)
(* goal id (for add_goal the value of goal_<date>_<uuid4().hex[:6]>),      *)
(* c.doc.now the clock reading, c.doc.data the caller's document.          *)

\* argument layouts of the calls, filled in by the call constructors
AddGoalArgs == [learning_goal |-> "", refined_goal |-> None, now |-> 1]
AppendHistoryArgs == [role |-> "", content |-> "", metadata |-> EmptyDict, now |-> 1]
DataArgs == [data |-> EmptyDict, now |-> 1]

AddGoalCall(l, learning_goal, refined_goal, goal_id, now) ==
    Call("add_goal", l, goal_id,
         [AddGoalArgs EXCEPT !.learning_goal = learning_goal,
                             !.refined_goal = refined_goal, !.now = now])

AppendHistoryCall(l, role, content, metadata, now) ==
    Call("append_history", l, "",
         [AppendHistoryArgs EXCEPT !.role = role, !.content = content,
                                   !.metadata = metadata, !.now = now])

DataCall(op, l, goal_id, data, now) ==
    Call(op, l, goal_id, [DataArgs EXCEPT !.data = data, !.now = now])

TargetFile(c) ==
    CASE c.op = "add_goal" -> "learning_goal.json"
      [] c.op = "append_history" -> "chat_history.json"
      [] c.op \in {"append_mastery_entry", "update_evaluations"} -> "mastery.json"
      [] c.op = "write_skill_gaps_for_goal" -> "skill_gaps.json"
      [] c.op = "write_learning_path_for_goal" -> "learning_path.json"
      [] c.op = "write_profile" -> "profile.json"

\* the JSON value the call writes, computed from the files f it reads
NewContent(c, f) ==
    CASE c.op = "add_goal" ->
            JsonDump(AddGoalData(read_learning_goals(f, c.l), c.goal,
                                 c.doc.learning_goal, c.doc.refined_goal, c.doc.now))
      [] c.op = "append_history" ->
            DumpList(AppendHistoryData(read_history(f, c.l), c.doc.role,
                                       c.doc.content, c.doc.metadata, c.doc.now))
      [] c.op = "append_mastery_entry" ->
            JsonDump(AppendMasteryData(read_mastery(f, c.l), c.doc.data, c.doc.now))
      [] c.op = "update_evaluations" ->
            JsonDump(UpdateEvaluationsData(read_mastery(f, c.l), c.doc.data, c.doc.now))
      [] c.op = "write_skill_gaps_for_goal" ->
            JsonDump(GoalScopedData(read_skill_gaps(f, c.l), c.goal, c.doc.data, c.doc.now))
      [] c.op = "write_learning_path_for_goal" ->
            JsonDump(GoalScopedData(read_learning_path(f, c.l), c.goal, c.doc.data, c.doc.now))
      [] c.op = "write_profile" -> JsonDump(c.doc.data)

ReturnOf(c) == IF c.op = "add_goal" THEN RetStr(c.goal) ELSE RetNone

\* the files after the call ran alone on files f
Applied(f, c) == WriteFile(f, c.l, TargetFile(c), NewContent(c, f))

\* number of list elements the call's document holds before the call
SizeBefore(c, f) ==
    CASE c.op = "add_goal" -> Len(GoalsOf(f, c.l))
      [] c.op = "append_history" -> Len(read_history(f, c.l))
      [] c.op = "append_mastery_entry" -> Len(Get(read_mastery(f, c.l), "entries", EmptyList))
      [] c.op = "update_evaluations" ->
            Len(Get(read_mastery(f, c.l), "evaluations_history", EmptyList))
      [] OTHER -> 0

\* one call from start to return, with no other request in between
Sequential(c, bound) ==
    /\ SizeBefore(c, fs) < bound
    /\ dirs' = ensure_dir(dirs, c.l)
    /\ fs' = Applied(fs, c)
    /\ ret' = ReturnOf(c)
    /\ last' = c
    /\ UNCHANGED <<registry, req>>

\* a read that leaves an empty profile behind
Reading_Creates(op, l, goal_id, result) ==
    /\ dirs' = ensure_dir(dirs, l)
    /\ fs' = WriteFile(fs, l, "profile.json", EmptyDict)
    /\ ret' = result
    /\ last' = Call(op, l, goal_id, EmptyDict)
    /\ UNCHANGED <<registry, req>>

\* a call that only reads
Reading(op, l, goal_id, result) ==
    /\ dirs' = ensure_dir(dirs, l)
    /\ ret' = result
    /\ last' = Call(op, l, goal_id, EmptyDict)
    /\ UNCHANGED <<fs, registry, req>>

\* a call that replaces one document
Writing(op, l, data, files) ==
    /\ dirs' = ensure_dir(dirs, l)
    /\ fs' = files
    /\ ret' = RetNone
    /\ last' = Call(op, l, "", [data |-> data])
    /\ UNCHANGED <<registry, req>>

add_goal(l, learning_goal, refined_goal, goal_id, now) ==
    Sequential(AddGoalCall(l, learning_goal, refined_goal, goal_id, now), MaxGoals)

get_active_goal(l) ==
    Reading("get_active_goal", l, "", ActiveGoalOf(read_learning_goals(fs, l)))

get_active_goal_id(l) ==
    Reading("get_active_goal_id", l, "", ActiveGoalIdOf(read_learning_goals(fs, l)))

Procs == {1, 2}

Idle == [pc |-> "idle"]

InitEmpty ==
    /\ fs = EmptyFs
    /\ dirs = {}
    /\ registry = Absent
    /\ req = [p \in Procs |-> Idle]
    /\ ret = RetNone
    /\ last = NoCall

-----------------------------------------------------------------------------
(* Sequences of add_goal calls on the stores of one workspace, from empty ledgers *)

LedgerStores == {"learner_a", NoLearner}
LedgerIds == {"goal_d1_a1b2c3", "goal_d1_d4e5f6"}
Refined == {None, "refined"}

AddGoalStep ==
    \E l \in LedgerStores, t \in GoalTexts, r \in Refined, g \in LedgerIds, now \in Times :
        add_goal(l, t, r, g, now)

GetActiveGoalStep == \E l \in LedgerStores : get_active_goal(l)

GetActiveGoalIdStep == \E l \in LedgerStores : get_active_goal_id(l)

NextLedger == AddGoalStep \/ GetActiveGoalStep \/ GetActiveGoalIdStep

SpecLedger == InitEmpty /\ [][NextLedger]_vars

ActiveRecords(goals) == {i \in 1..Len(goals) : goals[i].status = "active"}

\* C1: after every add_goal on a learner-scoped store, exactly one record is
\* active, it is the record the call appended (the last one), active_goal_id
\* is its goal_id and the returned id, and get_active_goal / get_active_goal_id
\* resolve to it.
C1_SingleActiveAfterAdd ==
    (last.op = "add_goal" /\ Scoped(last.l)) =>
        LET goals_data == read_learning_goals(fs, last.l)
            goals == Get(goals_data, "goals", EmptyList)
        IN  /\ Len(goals) >= 1
            /\ ActiveRecords(goals) = {Len(goals)}
            /\ Get(goals_data, "active_goal_id", None) = goals[Len(goals)].goal_id
            /\ ret = RetStr(goals[Len(goals)].goal_id)
            /\ ActiveGoalOf(goals_data) = RetDict(goals[Len(goals)])
            /\ ActiveGoalIdOf(goals_data) = ret

-----------------------------------------------------------------------------
(* The store's calls as steps of a request that runs alone *)

ReadProfile(l) == Reading("read_profile", l, "", RetDict(read_profile(fs, l)))

WriteProfile(l, data) == Writing("write_profile", l, data, write_profile(fs, l, data))

ReadLearningGoals(l) == Reading("read_learning_goals", l, "", RetDict(read_learning_goals(fs, l)))

WriteLearningGoals(l, data) ==
    Writing("write_learning_goals", l, data, write_learning_goals(fs, l, data))

ReadSkillGaps(l) == Reading("read_skill_gaps", l, "", RetDict(read_skill_gaps(fs, l)))

WriteSkillGaps(l, data) == Writing("write_skill_gaps", l, data, write_skill_gaps(fs, l, data))

ReadSkillGapsForGoal(l, g) ==
    Reading("read_skill_gaps_for_goal", l, g, RetDict(read_skill_gaps_for_goal(fs, l, g)))

WriteSkillGapsForGoal(l, g, data, now) ==
    Sequential(DataCall("write_skill_gaps_for_goal", l, g, data, now), 1)

ReadLearningPath(l) == Reading("read_learning_path", l, "", RetDict(read_learning_path(fs, l)))

WriteLearningPath(l, data) ==
    Writing("write_learning_path", l, data, write_learning_path(fs, l, data))

ReadLearningPathForGoal(l, g) ==
    Reading("read_learning_path_for_goal", l, g, RetDict(read_learning_path_for_goal(fs, l, g)))

WriteLearningPathForGoal(l, g, data, now) ==
    Sequential(DataCall("write_learning_path_for_goal", l, g, data, now), 1)

ReadMastery(l) == Reading("read_mastery", l, "", RetDict(read_mastery(fs, l)))

WriteMastery(l, data) == Writing("write_mastery", l, data, write_mastery(fs, l, data))

AppendMasteryEntry(l, entry, now) ==
    Sequential(DataCall("append_mastery_entry", l, "", entry, now), MaxEntries)

UpdateEvaluations(l, evaluation, now) ==
    Sequential(DataCall("update_evaluations", l, "", evaluation, now), MaxEntries)

ReadHistory(l) == Reading("read_history", l, "", RetList(read_history(fs, l)))

AppendHistory(l, role, content, metadata, now) ==
    Sequential(AppendHistoryCall(l, role, content, metadata, now), MaxEntries)

-----------------------------------------------------------------------------
(* Ledgers written whole (write_learning_goals), then read and extended *)

WrittenGoal(g, status) == [NewGoal(g, "Learn Rust", None, 1) EXCEPT !.status = status]

WrittenGoals ==
    {EmptyList} \cup {<<WrittenGoal(g, st)>> : g \in LedgerIds, st \in {"active", "inactive"}}

LedgerDocs ==
    {EmptyDict}
    \cup {[goals |-> gs] : gs \in WrittenGoals}
    \cup {[goals |-> gs, active_goal_id |-> a] :
            gs \in WrittenGoals, a \in LedgerIds \cup {None, ""}}

WriteLedgerStep == \E l \in LedgerStores, d \in LedgerDocs : WriteLearningGoals(l, d)

AddGoalAfterWriteStep ==
    \E l \in LedgerStores, g \in LedgerIds : add_goal(l, "Learn Go", None, g, MaxTime)

NextLedgerW ==
    WriteLedgerStep \/ AddGoalAfterWriteStep \/ GetActiveGoalStep \/ GetActiveGoalIdStep

SpecLedgerW == InitEmpty /\ [][NextLedgerW]_vars

\* active_goal_id names no record of goals
Dangling(goals_data) ==
    LET active_id == Get(goals_data, "active_goal_id", None)
        goals == Get(goals_data, "goals", EmptyList)
    IN  Truthy(active_id) /\ \A i \in 1..Len(goals) : goals[i].goal_id # active_id

EmptyLedger(goals_data) ==
    /\ Get(goals_data, "goals", EmptyList) = EmptyList
    /\ Get(goals_data, "active_goal_id", None) = None

\* C10: with a dangling active_goal_id, get_active_goal returns None and
\* get_active_goal_id returns the dangling id; on an empty ledger both return
\* None; neither call changes a file.
C10_DanglingPointer ==
    [][LET goals_data == read_learning_goals(fs, last'.l)
       IN  /\ (last'.op = "get_active_goal" /\ Dangling(goals_data))
                => (ret' = RetNone /\ fs' = fs)
           /\ (last'.op = "get_active_goal_id" /\ Dangling(goals_data))
                => (ret' = RetStr(goals_data.active_goal_id) /\ fs' = fs)
           /\ (last'.op \in {"get_active_goal", "get_active_goal_id"}
                    /\ EmptyLedger(goals_data))
                => (ret' = RetNone /\ fs' = fs)]_vars

\* get_active_goal has just answered None for a dangling pointer on a ledger with records
C10_Witness ==
    /\ last.op = "get_active_goal"
    /\ Dangling(read_learning_goals(fs, last.l))
    /\ GoalsOf(fs, last.l) # EmptyList
    /\ ret = RetNone

-----------------------------------------------------------------------------
(* Goal-scoped side tables written per goal, next to the unscoped learning path *)

SideStores == {"learner_a", NoLearner}
SideGoals == LedgerIds

SkillPayloads ==
    {[skill_gaps |-> PyList(<<"testing">>)],
     [skill_gaps |-> PyList(<<>>), updated_at |-> 1]}

PathPayloads == {[learning_path |-> PyList(<<"s1">>), updated_at |-> 1]}

UnscopedPaths == {EmptyDict, [modules |-> PyList(<<"m1">>)]}

WriteSkillGapsForGoalStep ==
    \E l \in SideStores, g \in SideGoals, d \in SkillPayloads, now \in Times :
        WriteSkillGapsForGoal(l, g, d, now)

ReadSkillGapsForGoalStep == \E l \in SideStores, g \in SideGoals : ReadSkillGapsForGoal(l, g)

WriteLearningPathForGoalStep ==
    \E l \in SideStores, g \in SideGoals, d \in PathPayloads :
        WriteLearningPathForGoal(l, g, d, MaxTime)

ReadLearningPathForGoalStep ==
    \E l \in SideStores, g \in SideGoals : ReadLearningPathForGoal(l, g)

WriteUnscopedPathStep == \E l \in SideStores, d \in UnscopedPaths : WriteLearningPath(l, d)

ReadUnscopedPathStep == \E l \in SideStores : ReadLearningPath(l)

NextSide ==
    \/ WriteSkillGapsForGoalStep \/ ReadSkillGapsForGoalStep
    \/ WriteLearningPathForGoalStep \/ ReadLearningPathForGoalStep
    \/ WriteUnscopedPathStep \/ ReadUnscopedPathStep

SpecSide == InitEmpty /\ [][NextSide]_vars

\* the entry of goal B is the same in both tables: present or not, and equal
SameEntry(before, after, B) ==
    /\ (B \in DOMAIN after) <=> (B \in DOMAIN before)
    /\ Get(after, B, EmptyDict) = Get(before, B, EmptyDict)

\* C2: write_skill_gaps_for_goal(A, doc) leaves the stored document of every
\* other goal B unchanged, neither altered nor removed, so a goal never written
\* still reads {}; the same for write_learning_path_for_goal.
C2_GoalScopedIsolation ==
    [][/\ last'.op = "write_skill_gaps_for_goal" =>
            \A B \in GoalIds \ {last'.goal} :
                SameEntry(read_skill_gaps(fs, last'.l), read_skill_gaps(fs', last'.l), B)
       /\ last'.op = "write_learning_path_for_goal" =>
            \A B \in GoalIds \ {last'.goal} :
                SameEntry(read_learning_path(fs, last'.l), read_learning_path(fs', last'.l), B)
      ]_vars

\* a goal's learning path was just written while both tables hold another goal's document
C2_Witness ==
    /\ last.op = "write_learning_path_for_goal"
    /\ \E B \in GoalIds \ {last.goal} :
        /\ read_learning_path_for_goal(fs, last.l, B) # EmptyDict
        /\ read_skill_gaps_for_goal(fs, last.l, B) # EmptyDict
        /\ read_skill_gaps_for_goal(fs, last.l, last.goal) # EmptyDict
    /\ \E C \in GoalIds : read_learning_path_for_goal(fs, last.l, C) = EmptyDict

-----------------------------------------------------------------------------
(* Appends to the history log and to the mastery log *)

Metadatas == {EmptyDict, [source |-> "chat"]}

MasteryEntries == {[topic |-> "Unit Testing"], [topic |-> "Unit Testing", timestamp |-> 1]}

Evaluations == {[overall_score |-> 85]}

AppendHistoryStep ==
    \E m \in Metadatas : AppendHistory("learner_a", "learner", "Hello", m, MaxTime)

AppendMasteryEntryStep ==
    \E l \in {"learner_a", NoLearner}, e \in MasteryEntries, now \in Times :
        AppendMasteryEntry(l, e, now)

UpdateEvaluationsStep ==
    \E e \in Evaluations : UpdateEvaluations("learner_a", e, MaxTime)

ReadHistoryStep == \E l \in {"learner_a", NoLearner} : ReadHistory(l)

ReadMasteryStep == \E l \in {"learner_a", NoLearner} : ReadMastery(l)

NextAppend ==
    \/ AppendHistoryStep \/ AppendMasteryEntryStep \/ UpdateEvaluationsStep
    \/ ReadHistoryStep \/ ReadMasteryStep

SpecAppend == InitEmpty /\ [][NextAppend]_vars

\* after is before with exactly one element added at the end
ExtendsByOne(before, after) ==
    /\ Len(after) = Len(before) + 1
    /\ \A i \in 1..Len(before) : after[i] = before[i]

EntriesOf(f, l) == Get(read_mastery(f, l), "entries", EmptyList)

\* C3: on a learner-scoped store every append_history makes the history one
\* entry longer, the new entry last and the earlier ones unchanged in place;
\* every append_mastery_entry does the same to the "entries" of mastery.json.
C3_AppendMonotonic ==
    [][/\ (last'.op = "append_history" /\ Scoped(last'.l)) =>
            /\ ExtendsByOne(read_history(fs, last'.l), read_history(fs', last'.l))
            /\ LET h == read_history(fs', last'.l)
               IN  /\ h[Len(h)].role = last'.doc.role
                   /\ h[Len(h)].content = last'.doc.content
       /\ (last'.op = "append_mastery_entry" /\ Scoped(last'.l)) =>
            /\ ExtendsByOne(EntriesOf(fs, last'.l), EntriesOf(fs', last'.l))
            /\ LET e == EntriesOf(fs', last'.l)
               IN  e[Len(e)].topic = last'.doc.data.topic
      ]_vars

\* an append has just extended a mastery log next to a history that both hold earlier entries
C3_Witness ==
    /\ last.op = "append_mastery_entry"
    /\ Scoped(last.l)
    /\ Len(EntriesOf(fs, last.l)) >= 2
    /\ Len(read_history(fs, last.l)) >= 2
    /\ "evaluations_history" \in DOMAIN read_mastery(fs, last.l)

-----------------------------------------------------------------------------
(* Whole documents written and read back *)

DocStores == {"learner_a", NoLearner}
DocGoal == "goal_d1_a1b2c3"

ProfileDocs ==
    {EmptyDict,
     [name |-> "Test User", interests |-> PyList(<<"coding">>)],
     [name |-> "Test User", interests |-> PyTuple(<<"coding">>)]}

GoalDocs ==
    {[goals |-> EmptyList],
     [goals |-> <<WrittenGoal(DocGoal, "active")>>, active_goal_id |-> DocGoal]}

SkillTables == {EmptyDict, [goal_d1_d4e5f6 |-> [skill_gaps |-> PyTuple(<<"testing">>)]]}

MasteryDocs == {[entries |-> EmptyList], [entries |-> <<[topic |-> "Unit Testing"]>>]}

PathDocs == {[modules |-> PyList(<<"m1">>)], [modules |-> PyTuple(<<"m1">>)]}

GoalPayloads ==
    {[skill_gaps |-> PyList(<<"testing">>)],
     [skill_gaps |-> PyTuple(<<"testing">>), updated_at |-> 1]}

GoalPathPayloads == {[learning_path |-> PyList(<<"s1">>), updated_at |-> 1]}

WriteProfileStep == \E l \in DocStores, d \in ProfileDocs : WriteProfile(l, d)
ReadProfileStep == \E l \in DocStores : ReadProfile(l)
WriteGoalsStep == \E l \in DocStores, d \in GoalDocs : WriteLearningGoals(l, d)
ReadGoalsStep == \E l \in DocStores : ReadLearningGoals(l)
WriteSkillGapsStep == \E l \in DocStores, d \in SkillTables : WriteSkillGaps(l, d)
ReadSkillGapsStep == \E l \in DocStores : ReadSkillGaps(l)
WriteMasteryStep == \E l \in DocStores, d \in MasteryDocs : WriteMastery(l, d)
ReadMasteryDocStep == \E l \in DocStores : ReadMastery(l)
WritePathStep == \E l \in DocStores, d \in PathDocs : WriteLearningPath(l, d)
ReadPathStep == \E l \in DocStores : ReadLearningPath(l)
WriteGapsForGoalStep ==
    \E l \in DocStores, d \in GoalPayloads, now \in Times :
        WriteSkillGapsForGoal(l, DocGoal, d, now)
ReadGapsForGoalStep == \E l \in DocStores : ReadSkillGapsForGoal(l, DocGoal)
WritePathForGoalStep ==
    \E l \in DocStores, d \in GoalPathPayloads, now \in Times :
        WriteLearningPathForGoal(l, DocGoal, d, now)
ReadPathForGoalStep == \E l \in DocStores : ReadLearningPathForGoal(l, DocGoal)

NextDocs ==
    \/ WriteProfileStep \/ ReadProfileStep
    \/ WriteGoalsStep \/ ReadGoalsStep
    \/ WriteSkillGapsStep \/ ReadSkillGapsStep
    \/ WriteMasteryStep \/ ReadMasteryDocStep
    \/ WritePathStep \/ ReadPathStep
    \/ WriteGapsForGoalStep \/ ReadGapsForGoalStep
    \/ WritePathForGoalStep \/ ReadPathForGoalStep

SpecDocs == InitEmpty /\ [][NextDocs]_vars

ReadOf(op) ==
    CASE op = "write_profile" -> "read_profile"
      [] op = "write_learning_goals" -> "read_learning_goals"
      [] op = "write_skill_gaps" -> "read_skill_gaps"
      [] op = "write_mastery" -> "read_mastery"
      [] op = "write_learning_path" -> "read_learning_path"
      [] op = "write_skill_gaps_for_goal" -> "read_skill_gaps_for_goal"
      [] op = "write_learning_path_for_goal" -> "read_learning_path_for_goal"
      [] OTHER -> "none"

\* returned is D with only updated_at added or replaced
SameButUpdatedAt(D, returned) ==
    /\ DOMAIN returned = (DOMAIN D) \cup {"updated_at"}
    /\ \A k \in (DOMAIN D) \ {"updated_at"} : returned[k] = D[k]

\* the read that follows the write of the JSON document D on the same scoped store
ReadsBack ==
    /\ ReadOf(last.op) # "none"
    /\ last'.op = ReadOf(last.op)
    /\ last'.l = last.l
    /\ last'.goal = last.goal
    /\ Scoped(last.l)
    /\ IsJson(last.doc.data)

\* C4: on a learner-scoped store, for a JSON document D, write_X(D) followed
\* at once by read_X() returns D (profile, learning goals, skill gaps, mastery,
\* learning path), and write_*_for_goal(g, D) followed by read_*_for_goal(g)
\* returns D with only updated_at added or replaced.
C4_RoundTrip ==
    [][ReadsBack =>
        IF last.goal = ""
        THEN ret' = RetDict(last.doc.data)
        ELSE /\ SameButUpdatedAt(last.doc.data, ret'.dict)
             /\ ret'.dict.updated_at = last.doc.now]_vars

\* a goal-scoped document with a list has just been read back after its write
C4_Witness ==
    /\ last.op = "read_skill_gaps_for_goal"
    /\ Scoped(last.l)
    /\ "skill_gaps" \in DOMAIN ret.dict
    /\ "updated_at" \in DOMAIN ret.dict
    /\ read_profile(fs, last.l) # EmptyDict
    /\ read_learning_path(fs, last.l) # EmptyDict

-----------------------------------------------------------------------------
(* Reads of every document type, next to writes for some learners *)

ReadStores == {"learner_a", "learner_b", NoLearner}
WrittenStores == {"learner_a", NoLearner}

ReadOps ==
    {"read_profile", "read_learning_goals", "read_skill_gaps", "read_skill_gaps_for_goal",
     "read_learning_path", "read_learning_path_for_goal", "read_mastery", "read_history",
     "get_active_goal", "get_active_goal_id"}

AnyReadStep ==
    \E l \in ReadStores :
        \/ ReadProfile(l)
        \/ ReadLearningGoals(l)
        \/ ReadSkillGaps(l)
        \/ ReadSkillGapsForGoal(l, DocGoal)
        \/ ReadLearningPath(l)
        \/ ReadLearningPathForGoal(l, DocGoal)
        \/ ReadMastery(l)
        \/ ReadHistory(l)
        \/ get_active_goal(l)
        \/ get_active_goal_id(l)

TestProfile == [name |-> "Test User"]
TestEntry == [topic |-> "Unit Testing"]
TestGaps == [skill_gaps |-> PyList(<<"testing">>)]
TestPath == [modules |-> PyList(<<"m1">>)]

SomeWriteStep ==
    \E l \in WrittenStores :
        \/ WriteProfile(l, TestProfile)
        \/ add_goal(l, "Learn Rust", None, DocGoal, 1)
        \/ AppendHistory(l, "learner", "Hello", EmptyDict, 1)
        \/ AppendMasteryEntry(l, TestEntry, 1)
        \/ WriteSkillGapsForGoal(l, DocGoal, TestGaps, 1)
        \/ WriteLearningPath(l, TestPath)

NextReads == AnyReadStep \/ SomeWriteStep

SpecReads == InitEmpty /\ [][NextReads]_vars

\* no document file of the store's directory exists
NeverWritten(f, l) == \A file \in FileNames : f[memory_dir(l)][file] = Absent

Sentinel(op) ==
    CASE op = "read_history" -> RetList(EmptyList)
      [] op \in {"get_active_goal", "get_active_goal_id"} -> RetNone
      [] OTHER -> RetDict(EmptyDict)

\* C5: for a learner never written to, every read returns its empty sentinel
\* ({} , [] or None) and creates no document file, however often repeated.
C5_EmptyReads ==
    [][(last'.op \in ReadOps /\ NeverWritten(fs, last'.l)) =>
            (ret' = Sentinel(last'.op) /\ fs' = fs /\ NeverWritten(fs', last'.l))]_vars

\* a read of a never-written learner has answered while another learner has documents
C5_Witness ==
    /\ last.op = "read_history"
    /\ last.l = "learner_b"
    /\ ret = RetList(EmptyList)
    /\ "learner_b" \in dirs
    /\ NeverWritten(fs, "learner_b")
    /\ read_history(fs, "learner_a") # EmptyList
    /\ read_profile(fs, "learner_a") # EmptyDict

-----------------------------------------------------------------------------
(* Concurrent requests.  No lock is taken: a call reads its document, builds *)
(* the new one, truncates the file (open 'w') and writes the bytes at       *)
(* offset 0 when it closes the file.  Bytes written over a longer file      *)
(* that another request wrote after the truncation leave undecodable        *)
(* content; the lengths are not modelled, so both outcomes are possible     *)
(* whenever the two documents differ.                                       *)

Done(r) == [pc |-> "done", call |-> r.call, new |-> r.new]

\* store construction, read of the document, computation of the new one
Begin(p, c, bound) ==
    /\ req[p].pc = "idle"
    /\ SizeBefore(c, fs) < bound
    /\ dirs' = ensure_dir(dirs, c.l)
    /\ req' = [req EXCEPT ![p] =
                [pc |-> "read", call |-> c,
                 new |-> [file \in {TargetFile(c)} |-> NewContent(c, fs)]]]
    /\ UNCHANGED <<fs, registry, ret, last>>

\* open(path, 'w'): the file is truncated; without the accessor nothing is written
Open(p, after) ==
    /\ req[p].pc = "read"
    /\ LET c == req[p].call
       IN  IF HasAttr(c.l, TargetFile(c))
           THEN /\ fs' = [fs EXCEPT ![memory_dir(c.l)][TargetFile(c)] = Empty]
                /\ req' = [req EXCEPT ![p].pc = "open"]
                /\ UNCHANGED <<ret, last>>
           ELSE /\ req' = [req EXCEPT ![p] = IF after = "done" THEN Done(req[p]) ELSE Idle]
                /\ ret' = ReturnOf(c)
                /\ last' = c
                /\ UNCHANGED fs
    /\ UNCHANGED <<dirs, registry>>

\* json.dump and close: the bytes land at offset 0
Close(p, after) ==
    /\ req[p].pc = "open"
    /\ LET c == req[p].call
           file == TargetFile(c)
           mine == Ok(req[p].new[file])
           cur == FileOf(fs, c.l, file)
       IN  /\ \E result \in (IF cur.st = "empty" \/ cur = mine THEN {mine} ELSE {mine, Corrupt}) :
                fs' = [fs EXCEPT ![memory_dir(c.l)][file] = result]
           /\ ret' = ReturnOf(c)
           /\ last' = c
    /\ req' = [req EXCEPT ![p] = IF after = "done" THEN Done(req[p]) ELSE Idle]
    /\ UNCHANGED <<dirs, registry>>

-----------------------------------------------------------------------------
(* Two requests, one call each, on a workspace where learner_a has documents *)

RaceLearners == {"learner_a", "learner_b"}

RaceFs0 ==
    LET a1 == write_learning_goals(EmptyFs, "learner_a",
                AddGoalData(EmptyDict, "goal_d2_a1b2c3", "Learn Rust", None, 1))
        a2 == write_history(a1, "learner_a",
                AppendHistoryData(EmptyList, "system", "Session initialized", EmptyDict, 1))
        a3 == write_mastery(a2, "learner_a",
                AppendMasteryData(EmptyDict, [topic |-> "Unit Testing"], 1))
    IN  write_skill_gaps(a3, "learner_a",
            GoalScopedData(EmptyDict, "goal_d2_a1b2c3", [skill_gaps |-> PyList(<<"testing">>)], 1))

InitRace ==
    /\ fs = RaceFs0
    /\ dirs = {Root, "learner_a"}
    /\ registry = Absent
    /\ req = [p \in Procs |-> Idle]
    /\ ret = RetNone
    /\ last = NoCall

RaceCalls ==
    UNION {
        {AddGoalCall(l, "Learn Go", None, g, MaxTime) : g \in LedgerIds}
        \cup {AppendHistoryCall(l, r, "Hello", EmptyDict, MaxTime) : r \in {"learner", "tutor"}}
        \cup {DataCall("append_mastery_entry", l, "", [topic |-> "Recursion"], MaxTime)}
        \cup {DataCall("write_skill_gaps_for_goal", l, g,
                       [skill_gaps |-> PyList(<<"testing">>)], MaxTime) : g \in LedgerIds}
        \cup {Call("write_profile", l, "", [data |-> [name |-> "Test User"]])}
        : l \in RaceLearners}

BeginStep == \E p \in Procs, c \in RaceCalls : Begin(p, c, MaxEntries + MaxGoals)

OpenStep == \E p \in Procs : Open(p, "done")

CloseStep == \E p \in Procs : Close(p, "done")

NextRace == BeginStep \/ OpenStep \/ CloseStep

SpecRace == InitRace /\ [][NextRace]_vars

BothDone == \A p \in Procs : req[p].pc = "done"

SameDocument(c1, c2) == c1.l = c2.l /\ TargetFile(c1) = TargetFile(c2)

\* two calls whose updates are distinct entries of one document
Conflicting(c1, c2) ==
    /\ SameDocument(c1, c2)
    /\ c1.op = c2.op
    /\ \/ c1.op \in {"add_goal", "append_history", "append_mastery_entry"}
       \/ c1.op = "write_skill_gaps_for_goal" /\ c1.goal # c2.goal

\* request p read its document before any request wrote
ReadInitial(p) == req[p].new[TargetFile(req[p].call)] = NewContent(req[p].call, RaceFs0)

\* number of entries of the call's document: list elements or goal keys
Entries(c, f) ==
    IF c.op = "write_skill_gaps_for_goal"
    THEN Cardinality(DOMAIN read_skill_gaps(f, c.l))
    ELSE SizeBefore(c, f)

\* C7: two requests of one learner that both read a multi-entry document
\* before either wrote it (two add_goal, two append_history, two
\* append_mastery_entry, or write_skill_gaps_for_goal for two goals) both
\* return, and the document then holds one writer's document only: it gained
\* one entry, not two, and the other update is missing.
C7_LastWriteWins ==
    (BothDone /\ Conflicting(req[1].call, req[2].call) /\ ReadInitial(1) /\ ReadInitial(2)) =>
        LET c == req[1].call
            file == FileOf(fs, c.l, TargetFile(c))
        IN  file.st = "ok" =>
                /\ file.doc \in {req[1].new[TargetFile(c)], req[2].new[TargetFile(c)]}
                /\ Entries(c, fs) = Entries(c, RaceFs0) + 1
                /\ fs # Applied(Applied(RaceFs0, req[1].call), req[2].call)
                /\ fs # Applied(Applied(RaceFs0, req[2].call), req[1].call)

\* both add_goal calls returned and the ledger holds only the goal of the last writer
C7_Witness ==
    /\ BothDone
    /\ req[1].call.op = "add_goal"
    /\ Conflicting(req[1].call, req[2].call)
    /\ req[1].call.goal # req[2].call.goal
    /\ ReadInitial(1) /\ ReadInitial(2)
    /\ FileOf(fs, "learner_a", "learning_goal.json") = Ok(req[2].new["learning_goal.json"])
    /\ Len(GoalsOf(fs, "learner_a")) = 2
    /\ \A i \in 1..2 : GoalsOf(fs, "learner_a")[i].goal_id # req[1].call.goal

\* the calls of the claim that touch different files or different learners
Independent(c1, c2) ==
    \/ c1.l # c2.l
    \/ {c1.op, c2.op} = {"append_history", "append_mastery_entry"}

\* C8: one append_history and one append_mastery_entry of a learner, and any
\* two calls for two different learners, leave under every interleaving the
\* state that running them one after the other leaves: both updates are there.
C8_IndependentCommute ==
    (BothDone /\ Independent(req[1].call, req[2].call)) =>
        /\ fs = Applied(Applied(RaceFs0, req[1].call), req[2].call)
        /\ fs = Applied(Applied(RaceFs0, req[2].call), req[1].call)

\* a history append and a mastery append of one learner have both returned
C8_Witness ==
    /\ BothDone
    /\ req[1].call.op = "append_history"
    /\ req[2].call.op = "append_mastery_entry"
    /\ req[1].call.l = "learner_a" /\ req[2].call.l = "learner_a"
    /\ Len(read_history(fs, "learner_a")) = 2
    /\ Len(EntriesOf(fs, "learner_a")) = 2

-----------------------------------------------------------------------------
(* Concurrent add_goal calls of one learner, request after request *)

BeginAddGoalStep ==
    \E p \in Procs, g \in LedgerIds :
        Begin(p, AddGoalCall("learner_a", "Learn Go", None, g, MaxTime), MaxGoals)

OpenLedgerStep == \E p \in Procs : Open(p, "idle")

CloseLedgerStep == \E p \in Procs : Close(p, "idle")

ReadActiveStep == get_active_goal("learner_a")

NextLedgerRace == BeginAddGoalStep \/ OpenLedgerStep \/ CloseLedgerStep \/ ReadActiveStep

SpecLedgerRace == InitEmpty /\ [][NextLedgerRace]_vars

\* C9: in every state of the persisted ledger under interleaved add_goal calls
\* at most one record is active, active_goal_id is that record's goal_id, and
\* it is absent when the ledger holds no goal.
C9_AtMostOneActive ==
    \A l \in Learners :
        LET goals_data == read_learning_goals(fs, l)
            goals == Get(goals_data, "goals", EmptyList)
        IN  /\ Cardinality(ActiveRecords(goals)) <= 1
            /\ \A i \in ActiveRecords(goals) : goals_data.active_goal_id = goals[i].goal_id
            /\ goals # EmptyList => ActiveRecords(goals) # {}
            /\ goals = EmptyList => "active_goal_id" \notin DOMAIN goals_data

\* a ledger of two records was written by a request whose snapshot was stale:
\* the other request holds a new ledger that does not contain the active record
C9_Witness ==
    /\ Len(GoalsOf(fs, "learner_a")) = 2
    /\ \E p \in Procs :
        /\ req[p].pc = "read"
        /\ Len(req[p].new["learning_goal.json"].goals) = 1

-----------------------------------------------------------------------------
(* User registry: users.json (UserRegistryService) *)

NoTime == 0     \* created_at is None

\* learner_dir.name.startswith("learner_")
LooksLikeLearner(name) == name \in {"learner_a", "learner_b"}

\* sorted(memory_dir.iterdir())
SortedDirs == <<"learner_a", "learner_b", "test_learner">>

_load_registry(reg) == IF reg.st = "ok" THEN reg.doc ELSE [users |-> EmptyList]

_save_registry(data) == Ok(data)

list_users(reg) == Get(_load_registry(reg), "users", EmptyList)

\* index of the first entry of users for learner_id, 0 if there is none
FirstEntry(users, learner_id) ==
    LET hits == {i \in 1..Len(users) : users[i].learner_id = learner_id}
    IN  IF hits = {} THEN 0 ELSE CHOOSE i \in hits : \A j \in hits : i <= j

\* the entry is appended whether or not the learner is registered
RegisterUserData_AlwaysAppend(data, learner_id, name, email, created_at, now) ==
    Put(data, "users",
        Append(Get(data, "users", EmptyList),
               [learner_id |-> learner_id, name |-> name, email |-> email,
                created_at |-> IF created_at # NoTime THEN created_at ELSE now]))

\* the registry document register_user saves
RegisterUserData(data, learner_id, name, email, created_at, now) ==
    LET users == Get(data, "users", EmptyList)
        i == FirstEntry(users, learner_id)
        renamed == [users[i] EXCEPT !.name = name]
        updated == IF Truthy(email) THEN Put(renamed, "email", email) ELSE renamed
        user == [learner_id |-> learner_id, name |-> name, email |-> email,
                 created_at |-> IF created_at # NoTime THEN created_at ELSE now]
    IN  IF i # 0
        THEN Put(data, "users", [users EXCEPT ![i] = updated])
        ELSE Put(data, "users", Append(users, user))

register_user(reg, learner_id, name, email, created_at, now) ==
    _save_registry(RegisterUserData(_load_registry(reg), learner_id, name, email,
                                    created_at, now))

\* the directory is scanned: a learner_* directory with a profile.json
Scanned(f, ds, d) ==
    d \in ds /\ LooksLikeLearner(d) /\ f[d]["profile.json"].st # "absent"

\* the loop of sync_from_disk from directory i on: registry file and count
RECURSIVE SyncLoop(_, _, _, _, _, _)
SyncLoop(i, reg, count, f, ds, now) ==
    IF i > Len(SortedDirs) THEN [registry |-> reg, count |-> count]
    ELSE LET d == SortedDirs[i]
             file == f[d]["profile.json"]
             profile == JsonLoad(file.doc)
         IN  IF ~Scanned(f, ds, d) \/ file.st # "ok"
             THEN SyncLoop(i + 1, reg, count, f, ds, now)
             ELSE SyncLoop(i + 1,
                           register_user(reg, Get(profile, "learner_id", d),
                                         Get(profile, "name", "Anonymous Learner"),
                                         Get(profile, "email", None),
                                         Get(profile, "created_at", NoTime), now),
                           count + 1, f, ds, now)

\* the scan finds no directory
sync_from_disk_NoScan(reg, f, ds, now) == [registry |-> reg, count |-> 0]

sync_from_disk(reg, f, ds, now) ==
    IF Root \notin ds THEN [registry |-> reg, count |-> 0]
    ELSE SyncLoop(1, reg, 0, f, ds, now)

RegistryCall(op, learner_id, doc) == Call(op, learner_id, "", doc)

RegisterUser(learner_id, name, email, created_at, now) ==
    /\ Len(list_users(registry)) < Len(SortedDirs)
    /\ registry' = register_user(registry, learner_id, name, email, created_at, now)
    /\ ret' = RetDict(LET users == list_users(registry')
                      IN  users[FirstEntry(users, learner_id)])
    /\ last' = RegistryCall("register_user", learner_id,
                            [name |-> name, email |-> email])
    /\ UNCHANGED <<fs, dirs, req>>

SyncFromDisk(now) ==
    /\ registry' = sync_from_disk(registry, fs, dirs, now).registry
    /\ ret' = RetInt(sync_from_disk(registry, fs, dirs, now).count)
    /\ last' = RegistryCall("sync_from_disk", NoLearner, EmptyDict)
    /\ UNCHANGED <<fs, dirs, req>>

ListUsers ==
    /\ ret' = RetList(list_users(registry))
    /\ last' = RegistryCall("list_users", NoLearner, EmptyDict)
    /\ UNCHANGED <<fs, dirs, registry, req>>

-----------------------------------------------------------------------------
(* Profiles saved by learners, and the registry synced from them *)

\* the profile initialize-session builds, and later replacements of it
SyncProfiles ==
    {[learner_id |-> l, name |-> "Ann", email |-> e, created_at |-> 1] :
        l \in {"learner_a", "learner_b"}, e \in {"ann@example.org", None}}
    \cup {[name |-> "Ann"]}

SaveProfileStep ==
    \/ \E l \in {"learner_a", "learner_b"}, d \in SyncProfiles : WriteProfile(l, d)
    \/ WriteProfile("test_learner", TestProfile)

SyncStep == SyncFromDisk(MaxTime)

ListUsersStep == ListUsers

RegisterUserStep ==
    \E l \in {"learner_a", "test_learner"} :
        RegisterUser(l, "Ann", "old@example.org", NoTime, MaxTime)

NextSync == SaveProfileStep \/ SyncStep \/ ListUsersStep \/ RegisterUserStep

SpecSync == InitEmpty /\ [][NextSync]_vars

ProfileOf(d) == read_profile(fs, d)

\* every directory under memory/ is a learner_* directory whose profile.json
\* decodes to a profile with a name and with no other learner's id
AllValidLearnerDirs ==
    \A d \in dirs \ {Root} :
        /\ LooksLikeLearner(d)
        /\ fs[d]["profile.json"].st = "ok"
        /\ "name" \in DOMAIN ProfileOf(d)
        /\ Get(ProfileOf(d), "learner_id", d) = d

EntriesFor(users, d) == {i \in 1..Len(users) : users[i].learner_id = d}

\* C6: with N learner directories that each hold a valid profile.json,
\* sync_from_disk returns N and list_users then holds exactly one entry per
\* learner id, with the name and the email of that learner's profile,
\* whatever the registry held before.
C6_SyncMatchesProfiles ==
    (last.op = "sync_from_disk" /\ AllValidLearnerDirs) =>
        LET users == list_users(registry)
        IN  /\ ret = RetInt(Cardinality(dirs \ {Root}))
            /\ \A d \in dirs \ {Root} :
                /\ Cardinality(EntriesFor(users, d)) = 1
                /\ \A i \in EntriesFor(users, d) :
                    /\ users[i].name = ProfileOf(d).name
                    /\ users[i].email = Get(ProfileOf(d), "email", None)

-----------------------------------------------------------------------------
(* LearnerRepository (apps/backend/repositories/learner_repository.py).     *)
(* Every call builds a LearnerMemoryStore and delegates to it.  A call can  *)
(* fail in the file system: fault "mkdir" is ensure_dir raising in the      *)
(* store's constructor, "read" is open/json.load raising an error that the  *)
(* store does not catch (the bytes are not UTF-8: UnicodeDecodeError),      *)
(* "write" is open(path, 'w') or json.dump raising.                         *)

\* the call ended with an exception
RetRaise == [raised |-> TRUE]

RetBool(b) == [bool |-> b]

Faults == {"none", "mkdir", "read", "write"}

HistoryLimit == 100     \* get_history(learner_id, limit=100)
ContextLimit == 10      \* get_history(learner_id, limit=10) of get_learner_context

GuardedReads == {"get_profile", "get_learning_goals", "get_skill_gaps",
                 "get_learning_path", "get_mastery", "get_history"}
UnguardedReads == {"get_skill_gaps_for_goal", "get_learning_path_for_goal", "search_history"}
FacadeReads == GuardedReads \cup UnguardedReads \cup {"get_learner_context"}
AppendOps == {"append_mastery_entry", "append_history", "log_interaction"}
SaveOps == {"save_profile", "save_learning_path"}
\* calls that write a document without reading it: the saves and save(), their alias
WholeWrites == SaveOps \cup {"save"}

\* the file a call opens
FacadeFile(op) ==
    CASE op \in {"get_profile", "save_profile", "get", "save"} -> "profile.json"
      [] op = "get_learning_goals" -> "learning_goal.json"
      [] op \in {"get_skill_gaps", "get_skill_gaps_for_goal"} -> "skill_gaps.json"
      [] op \in {"get_learning_path", "get_learning_path_for_goal", "save_learning_path"} ->
            "learning_path.json"
      [] op \in {"get_mastery", "append_mastery_entry"} -> "mastery.json"
      [] op \in {"get_history", "search_history", "append_history", "log_interaction"} ->
            "chat_history.json"

\* the fault can happen under the call: mkdir(exist_ok=True) only fails for a
\* directory that is not there yet, a file is only opened for reading when
\* it exists, and only the calls that write open a file for writing
CanFail(fault, op, l, f, ds) ==
    CASE fault = "none" -> TRUE
      [] fault = "mkdir" -> ensure_dir(ds, l) # ds
      [] fault = "read" ->
            /\ op \notin WholeWrites
            /\ HasAttr(l, FacadeFile(op))
            /\ FileOf(f, l, FacadeFile(op)).st # "absent"
      [] fault = "write" -> op \in WholeWrites \cup AppendOps /\ HasAttr(l, FacadeFile(op))

\* LearnerMemoryStore(workspace, learner_id): the directories afterwards; when
\* mkdir raises, workspace/memory may have been created before
_get_memory_store(ds, l, fault, partial) ==
    IF fault = "mkdir"
    THEN IF partial /\ Scoped(l) THEN ds \cup {Root} ELSE ds
    ELSE ensure_dir(ds, l)

\* x if x else None
OrNone(d) == IF d # EmptyDict THEN RetDict(d) ELSE RetNone

\* history[-limit:] when limit > 0 and len(history) > limit
LastN(history, limit) ==
    IF limit > 0 /\ Len(history) > limit
    THEN SubSeq(history, Len(history) - limit + 1, Len(history))
    ELSE history

get_profile(f, l, fault) ==
    IF fault # "none" THEN RetNone ELSE OrNone(read_profile(f, l))

get_learning_goals(f, l, fault) ==
    IF fault # "none" THEN RetNone ELSE OrNone(read_learning_goals(f, l))

get_skill_gaps(f, l, fault) ==
    IF fault # "none" THEN RetNone ELSE OrNone(read_skill_gaps(f, l))

get_learning_path(f, l, fault) ==
    IF fault # "none" THEN RetNone ELSE OrNone(read_learning_path(f, l))

get_mastery(f, l, fault) ==
    IF fault # "none" THEN RetNone ELSE OrNone(read_mastery(f, l))

get_history(f, l, limit, fault) ==
    IF fault # "none" THEN RetList(EmptyList) ELSE RetList(LastN(read_history(f, l), limit))

\* no try/except: the store's exception reaches the caller
get_skill_gaps_for_goal(f, l, goal_id, fault) ==
    IF fault # "none" THEN RetRaise ELSE RetDict(read_skill_gaps_for_goal(f, l, goal_id))

get_learning_path_for_goal(f, l, goal_id, fault) ==
    IF fault # "none" THEN RetRaise ELSE RetDict(read_learning_path_for_goal(f, l, goal_id))

\* str.lower() on the words the model uses
Lower(s) ==
    CASE s \in {"Hello", "HELLO"} -> "hello"
      [] s \in {"Local", "LOCAL"} -> "local"
      [] OTHER -> s

\* query.lower() in content.lower(); no content of the model is a proper
\* substring of another
Contains(content, query) == query = "" \/ Lower(query) = Lower(content)

\* [e for e in history if query.lower() in e.get("content", "").lower()]
Matches(history, query) ==
    SelectSeq(history, LAMBDA e : Contains(Get(e, "content", ""), query))

search_history(f, l, query, fault) ==
    IF fault # "none" THEN RetRaise ELSE RetList(Matches(read_history(f, l), query))

\* the fault as it strikes one read of a composed call
PartFault(fault, op, l, f, ds) == IF CanFail(fault, op, l, f, ds) THEN fault ELSE "none"

\* value or {}
OrEmpty(r) == IF r = RetNone THEN EmptyDict ELSE r.dict

get_learner_context(f, ds, l, fault) ==
    RetDict([learner_id |-> l,
             profile |-> OrEmpty(get_profile(f, l, PartFault(fault, "get_profile", l, f, ds))),
             learning_goals |->
                 OrEmpty(get_learning_goals(f, l,
                                            PartFault(fault, "get_learning_goals", l, f, ds))),
             skill_gaps |->
                 OrEmpty(get_skill_gaps(f, l, PartFault(fault, "get_skill_gaps", l, f, ds))),
             mastery |-> OrEmpty(get_mastery(f, l, PartFault(fault, "get_mastery", l, f, ds))),
             learning_path |->
                 OrEmpty(get_learning_path(f, l,
                                           PartFault(fault, "get_learning_path", l, f, ds))),
             recent_history |->
                 get_history(f, l, ContextLimit,
                             PartFault(fault, "get_history", l, f, ds)).list])

\* the value a read of the facade returns
FacadeReadResult(op, f, ds, l, arg, fault) ==
    CASE op \in {"get_profile", "get"} -> get_profile(f, l, fault)
      [] op = "get_learning_goals" -> get_learning_goals(f, l, fault)
      [] op = "get_skill_gaps" -> get_skill_gaps(f, l, fault)
      [] op = "get_learning_path" -> get_learning_path(f, l, fault)
      [] op = "get_mastery" -> get_mastery(f, l, fault)
      [] op = "get_history" -> get_history(f, l, HistoryLimit, fault)
      [] op = "get_skill_gaps_for_goal" -> get_skill_gaps_for_goal(f, l, arg, fault)
      [] op = "get_learning_path_for_goal" -> get_learning_path_for_goal(f, l, arg, fault)
      [] op = "search_history" -> search_history(f, l, arg, fault)
      [] op = "get_learner_context" -> get_learner_context(f, ds, l, fault)

\* argument layout of a call: the object called, the document, the fault
\* that strikes the call, the clock reading and settings.storage_mode
FacadeArgs ==
    [via |-> "LearnerRepository", data |-> EmptyDict, fault |-> "none", now |-> 1,
     mode |-> "local"]

FacadeCall(op, l, arg, data, fault, now) ==
    Call(op, l, arg, [FacadeArgs EXCEPT !.data = data, !.fault = fault, !.now = now])

\* one read of the facade, from the call to the return or the exception
FacadeRead(op, l, arg, fault, partial) ==
    /\ IF op = "get_learner_context"
       THEN fault = "none" \/ \E part \in GuardedReads : CanFail(fault, part, l, fs, dirs)
       ELSE CanFail(fault, op, l, fs, dirs)
    /\ dirs' = IF op = "get_learner_context" /\ fault = "read"
               THEN ensure_dir(dirs, l)
               ELSE _get_memory_store(dirs, l, fault, partial)
    /\ ret' = FacadeReadResult(op, fs, dirs, l, arg, fault)
    /\ last' = FacadeCall(op, l, arg, EmptyDict, fault, MaxTime)
    /\ UNCHANGED <<fs, registry, req>>

\* the files after the store's write ran to its end
StoreWrite(op, f, l, data, now) ==
    CASE op \in {"save_profile", "save"} -> write_profile(f, l, data)
      [] op = "save_learning_path" -> write_learning_path(f, l, data)
      [] op = "append_mastery_entry" ->
            write_mastery(f, l, AppendMasteryData(read_mastery(f, l), data, now))
      [] op \in {"append_history", "log_interaction"} ->
            write_history(f, l, AppendHistoryData(read_history(f, l), data.role,
                                                  data.content, EmptyDict, now))

\* the files after the call: a write that raises leaves the file as it was
\* (open failed) or truncated (json.dump failed)
FilesAfter(op, f, l, data, now, fault, partial) ==
    CASE fault = "none" -> StoreWrite(op, f, l, data, now)
      [] fault = "write" /\ partial -> [f EXCEPT ![memory_dir(l)][FacadeFile(op)] = Empty]
      [] OTHER -> f

\* number of entries the append finds
EntriesBefore(op, f, l) ==
    CASE op = "append_mastery_entry" -> Len(Get(read_mastery(f, l), "entries", EmptyList))
      [] op \in {"append_history", "log_interaction"} -> Len(read_history(f, l))
      [] OTHER -> 0

\* a write that passes the store's exception over
FacadeWrite_Swallows(op, l, data, fault, partial) ==
    /\ CanFail(fault, op, l, fs, dirs)
    /\ EntriesBefore(op, fs, l) < MaxEntries
    /\ dirs' = _get_memory_store(dirs, l, fault, partial)
    /\ fs' = FilesAfter(op, fs, l, data, MaxTime, fault, partial)
    /\ ret' = RetNone
    /\ last' = FacadeCall(op, l, "", data, fault, MaxTime)
    /\ UNCHANGED <<registry, req>>

\* one write of the facade: nothing catches the store's exception
FacadeWrite(op, l, data, fault, partial) ==
    /\ CanFail(fault, op, l, fs, dirs)
    /\ EntriesBefore(op, fs, l) < MaxEntries
    /\ dirs' = _get_memory_store(dirs, l, fault, partial)
    /\ fs' = FilesAfter(op, fs, l, data, MaxTime, fault, partial)
    /\ ret' = IF fault # "none" THEN RetRaise ELSE RetNone
    /\ last' = FacadeCall(op, l, "", data, fault, MaxTime)
    /\ UNCHANGED <<registry, req>>

save_profile(l, profile, fault, partial) == FacadeWrite("save_profile", l, profile, fault, partial)

save_learning_path(l, learning_path, fault, partial) ==
    FacadeWrite("save_learning_path", l, learning_path, fault, partial)

append_mastery_entry(l, entry, fault, partial) ==
    FacadeWrite("append_mastery_entry", l, entry, fault, partial)

append_history(l, entry, fault, partial) == FacadeWrite("append_history", l, entry, fault, partial)

log_interaction(l, entry, fault, partial) == FacadeWrite("log_interaction", l, entry, fault, partial)

\* workspace / "learners" / learner_id: the directory exists() and delete()
\* look at; the stores keep their files under workspace / "memory"
learner_dir(l) == "learners/" \o l

\* (workspace / "learners" / learner_id / "profile.json").exists()
exists(f, ds, l) ==
    /\ learner_dir(l) \in ds
    /\ learner_dir(l) \in DOMAIN f
    /\ f[learner_dir(l)]["profile.json"].st # "absent"

Exists(l) ==
    /\ ret' = RetBool(exists(fs, dirs, l))
    /\ last' = FacadeCall("exists", l, "", EmptyDict, "none", MaxTime)
    /\ UNCHANGED <<fs, dirs, registry, req>>

\* get(learner_id) is get_profile(learner_id)
get(l, fault, partial) == FacadeRead("get", l, "", fault, partial)

\* save(learner_id, data) is save_profile(learner_id, data)
save(l, data, fault, partial) == FacadeWrite("save", l, data, fault, partial)

\* if learner_dir.exists(): shutil.rmtree(learner_dir)
delete(ds, l) == ds \ {learner_dir(l)}

Delete(l) ==
    /\ dirs' = delete(dirs, l)
    /\ ret' = RetNone
    /\ last' = FacadeCall("delete", l, "", EmptyDict, "none", MaxTime)
    /\ UNCHANGED <<fs, registry, req>>

-----------------------------------------------------------------------------
(* Requests against the facade, one at a time, with and without faults *)

FacadeLearners == {"learner_a", NoLearner}
Interaction == [role |-> "user", content |-> "Hello"]
Queries == {"hello", "x"}

\* a fault and whether the failing call left something behind
FaultCases == {<<"none", FALSE>>, <<"mkdir", FALSE>>, <<"mkdir", TRUE>>,
               <<"read", FALSE>>, <<"write", FALSE>>, <<"write", TRUE>>}

\* the argument of a read: a goal id, a query, or nothing
ReadArgs(op) ==
    CASE op \in {"get_skill_gaps_for_goal", "get_learning_path_for_goal"} -> {"goal_d1_a1b2c3"}
      [] op = "search_history" -> Queries
      [] OTHER -> {""}

FacadeReadStep ==
    \E op \in FacadeReads, l \in FacadeLearners, x \in FaultCases :
        \E arg \in ReadArgs(op) : FacadeRead(op, l, arg, x[1], x[2])

SaveProfileFacadeStep ==
    \E l \in FacadeLearners, x \in FaultCases : save_profile(l, TestProfile, x[1], x[2])

SaveLearningPathFacadeStep ==
    \E l \in FacadeLearners, x \in FaultCases : save_learning_path(l, TestPath, x[1], x[2])

AppendMasteryFacadeStep ==
    \E l \in FacadeLearners, x \in FaultCases : append_mastery_entry(l, TestEntry, x[1], x[2])

AppendHistoryFacadeStep ==
    \E l \in FacadeLearners, x \in FaultCases : append_history(l, Interaction, x[1], x[2])

LogInteractionFacadeStep ==
    \E l \in FacadeLearners, x \in FaultCases : log_interaction(l, Interaction, x[1], x[2])

\* the workspace-level calls of the repository: exists, get, save, delete
CrudStep ==
    \E l \in FacadeLearners :
        \/ Exists(l)
        \/ Delete(l)
        \/ \E x \in FaultCases : get(l, x[1], x[2]) \/ save(l, TestProfile, x[1], x[2])

NextFacade ==
    \/ FacadeReadStep
    \/ SaveProfileFacadeStep
    \/ SaveLearningPathFacadeStep
    \/ AppendHistoryFacadeStep
    \/ CrudStep

SpecFacade == InitEmpty /\ [][NextFacade]_vars

\* C11: every read of the facade under which the store's construction or the
\* store's read fails returns None or an empty collection instead of raising
\* (get_learner_context: a context whose parts are empty).
C11_ReadsNeverRaise ==
    (last.op \in FacadeReads /\ last.doc.fault # "none") =>
        /\ ret # RetRaise
        /\ last.op # "get_learner_context" => ret \in {RetNone, RetList(EmptyList)}

\* the guarded reads do return None or [] under every fault
C11_GuardedReadsDegrade ==
    (last.op \in GuardedReads /\ last.doc.fault # "none") =>
        ret \in {RetNone, RetList(EmptyList)}

-----------------------------------------------------------------------------
(* MemoryService (apps/backend/services/memory_service.py): the writes the  *)
(* endpoints call next to the repository's                                  *)

StorageModes == {"local", "LOCAL", "cloud"}

\* the store is used in every storage mode
is_available_Always(mode) == TRUE

\* settings.storage_mode.lower() == "local"
is_available(mode) == Lower(mode) = "local"

ServiceCall(op, mode, l, data, fault, now) ==
    Call(op, l, "", [FacadeArgs EXCEPT !.via = "MemoryService", !.data = data,
                                       !.fault = fault, !.now = now, !.mode = mode])

\* log_interaction, save_profile, append_mastery_entry, save_learning_path:
\* nothing happens in cloud mode or without a learner id, and every
\* exception of the store (MemoryError of get_memory_store included) is passed over
ServiceWrite(op, mode, l, data, fault, partial) ==
    /\ IF ~is_available(mode) \/ ~Truthy(l)
       THEN /\ fault = "none" /\ ~partial
            /\ UNCHANGED <<fs, dirs>>
       ELSE /\ CanFail(fault, op, l, fs, dirs)
            /\ EntriesBefore(op, fs, l) < MaxEntries
            /\ dirs' = _get_memory_store(dirs, l, fault, partial)
            /\ fs' = FilesAfter(op, fs, l, data, MaxTime, fault, partial)
    /\ ret' = RetNone
    /\ last' = ServiceCall(op, mode, l, data, fault, MaxTime)
    /\ UNCHANGED <<registry, req>>

ServiceWrites == {"log_interaction", "save_profile", "append_mastery_entry",
                  "save_learning_path"}

\* the document a scenario hands to a write
DataOf(op) ==
    CASE op = "save_profile" -> TestProfile
      [] op = "save_learning_path" -> TestPath
      [] op = "append_mastery_entry" -> TestEntry
      [] op \in {"append_history", "log_interaction"} -> Interaction

ServiceLearners == {"learner_a", NoLearner, None}

ServiceAppendStep ==
    \E op \in {"log_interaction", "append_mastery_entry"}, mode \in StorageModes,
       l \in ServiceLearners, x \in FaultCases :
        ServiceWrite(op, mode, l, DataOf(op), x[1], x[2])

\* reads that show what the appends left
ReadEntriesStep ==
    \E op \in {"get_mastery", "get_history"}, l \in FacadeLearners :
        FacadeRead(op, l, "", "none", FALSE)

NextFacadeWrites ==
    \/ AppendMasteryFacadeStep
    \/ AppendHistoryFacadeStep
    \/ LogInteractionFacadeStep
    \/ ServiceAppendStep
    \/ ReadEntriesStep

SpecFacadeWrites == InitEmpty /\ [][NextFacadeWrites]_vars

\* every document but the one the call writes is as it was
OthersUnchanged(c) ==
    \A d \in DOMAIN fs, file \in FileNames :
        (d # memory_dir(c.l) \/ file # FacadeFile(c.op)) => fs'[d][file] = fs[d][file]

\* C12: a history append (append_history, log_interaction) or a mastery
\* append under which the store raises returns normally to the caller, and
\* no document other than the one it writes is changed.
C12_BestEffortSwallowed ==
    [][(last'.op \in AppendOps /\ last'.doc.fault # "none") =>
           ret' = RetNone /\ OthersUnchanged(last')]_vars

\* the service's appends do pass the failure over, and no failing append of
\* either object touches another document
C12_ServiceSwallows ==
    [][(last'.op \in AppendOps /\ last'.doc.fault # "none") =>
           /\ last'.doc.via = "MemoryService" => ret' = RetNone
           /\ OthersUnchanged(last')]_vars

-----------------------------------------------------------------------------
(* Explicit saves of the profile and of the learning path, through the      *)
(* repository and through the service                                       *)

ServiceSaveStep ==
    \E op \in SaveOps, mode \in StorageModes, l \in ServiceLearners, x \in FaultCases :
        ServiceWrite(op, mode, l, DataOf(op), x[1], x[2])

\* reads that show what the saves left
ReadSavedStep ==
    \E op \in {"get_profile", "get_learning_path"}, l \in FacadeLearners :
        FacadeRead(op, l, "", "none", FALSE)

NextFacadeSaves ==
    \/ SaveProfileFacadeStep
    \/ SaveLearningPathFacadeStep
    \/ ServiceSaveStep
    \/ ReadSavedStep

SpecFacadeSaves == InitEmpty /\ [][NextFacadeSaves]_vars

\* the document the last call saved is in its file
Persisted(c) ==
    /\ Truthy(c.l)
    /\ FileOf(fs, c.l, FacadeFile(c.op)) = Ok(JsonDump(c.doc.data))

\* C13 as stated: save_profile / save_learning_path raise when the store
\* cannot persist, and a normal return implies the document was written.
C13_SavesSurfaceFailure ==
    last.op \in SaveOps =>
        /\ last.doc.fault # "none" => ret = RetRaise
        /\ ret = RetNone => Persisted(last)

\* C13: LearnerRepository.save_profile / save_learning_path raise whenever
\* building the store or the write fails, and with a non-empty learner id a
\* normal return implies the document is in its file; with an empty learner
\* id they return normally with nothing written; MemoryService.save_profile /
\* save_learning_path never raise, whether the document was written or not.
C13_RepositorySavesSurfaceFailure ==
    last.op \in SaveOps =>
        /\ last.doc.via = "LearnerRepository" =>
              /\ last.doc.fault # "none" => ret = RetRaise
              /\ (ret = RetNone /\ Scoped(last.l)) => Persisted(last)
              /\ (ret = RetNone /\ ~Scoped(last.l)) =>
                    FileOf(fs, last.l, FacadeFile(last.op)) = Absent
        /\ last.doc.via = "MemoryService" => ret = RetNone

\* a repository save whose write failed, leaving the file truncated, raised
C13_Witness ==
    /\ last.op = "save_profile"
    /\ last.doc.via = "LearnerRepository"
    /\ last.doc.fault = "write"
    /\ ret = RetRaise
    /\ FileOf(fs, last.l, "profile.json") = Empty

-----------------------------------------------------------------------------
(* A store constructed without a learner id, next to a learner's store *)

UnscopedIds == {NoLearner}

LearnerWrites ==
    {"write_profile", "write_learning_goals", "add_goal", "write_skill_gaps",
     "write_skill_gaps_for_goal", "write_learning_path", "write_learning_path_for_goal",
     "write_mastery", "append_mastery_entry", "update_evaluations"}

UnscopedWriteStep ==
    \E l \in UnscopedIds :
        \/ WriteProfile(l, TestProfile)
        \/ WriteLearningGoals(l, [goals |-> EmptyList])
        \/ add_goal(l, "Learn Rust", None, DocGoal, MaxTime)
        \/ WriteSkillGaps(l, TestGaps)
        \/ WriteSkillGapsForGoal(l, DocGoal, TestGaps, MaxTime)
        \/ WriteLearningPath(l, TestPath)
        \/ WriteLearningPathForGoal(l, DocGoal, TestPath, MaxTime)
        \/ WriteMastery(l, TestEntry)
        \/ AppendMasteryEntry(l, TestEntry, MaxTime)
        \/ UpdateEvaluations(l, TestEntry, MaxTime)

UnscopedReadStep ==
    \E l \in UnscopedIds :
        \/ ReadProfile(l)
        \/ ReadLearningGoals(l)
        \/ ReadSkillGaps(l)
        \/ ReadSkillGapsForGoal(l, DocGoal)
        \/ ReadLearningPath(l)
        \/ ReadLearningPathForGoal(l, DocGoal)
        \/ ReadMastery(l)
        \/ get_active_goal(l)
        \/ get_active_goal_id(l)

\* the history log is not learner-scoped: the unscoped store keeps one
UnscopedHistoryStep ==
    \E l \in UnscopedIds :
        \/ AppendHistory(l, "learner", "Hello", EmptyDict, MaxTime)
        \/ ReadHistory(l)

\* a learner's store writes at the same time
ScopedWriteStep ==
    \/ WriteProfile("learner_a", TestProfile)
    \/ add_goal("learner_a", "Learn Rust", None, DocGoal, MaxTime)
    \/ ReadProfile("learner_a")
    \/ get_active_goal_id("learner_a")

NextUnscoped ==
    \/ UnscopedWriteStep
    \/ UnscopedReadStep
    \/ UnscopedHistoryStep
    \/ ScopedWriteStep

SpecUnscoped == InitEmpty /\ [][NextUnscoped]_vars

\* C14: on a store constructed without a learner id every learner-scoped
\* write returns (add_goal with its new id) and leaves every file as it was,
\* and every learner-scoped read still returns {} or None, so the id
\* add_goal returned resolves to no goal.
C14_UnscopedWritesNoOp ==
    [][(~Scoped(last'.l) /\ last'.op # "none") =>
           /\ last'.op \in LearnerWrites =>
                 /\ fs' = fs
                 /\ ret' = IF last'.op = "add_goal" THEN RetStr(last'.goal) ELSE RetNone
           /\ last'.op \in ReadOps \ {"read_history"} =>
                 /\ fs' = fs
                 /\ ret' = Sentinel(last'.op)]_vars

\* add_goal on the unscoped store returned an id while no ledger exists
\* anywhere under memory/ but the learner's own
C14_Witness ==
    /\ last.op = "add_goal"
    /\ ~Scoped(last.l)
    /\ ret = RetStr(DocGoal)
    /\ NeverWritten(fs, NoLearner)
    /\ Root \in dirs
    /\ fs["learner_a"]["learning_goal.json"] # Absent

-----------------------------------------------------------------------------
(* Registry calls: get_user, delete_user; register_user with every kind of  *)
(* argument                                                                 *)

\* first entry of the registry for learner_id, or None
get_user(reg, learner_id) ==
    LET users == list_users(reg)
        i == FirstEntry(users, learner_id)
    IN  IF i = 0 THEN RetNone ELSE RetDict(users[i])

\* [u for u in users if u.get("learner_id") != learner_id]
Without(users, learner_id) == SelectSeq(users, LAMBDA u : u.learner_id # learner_id)

\* delete_user: registry, files, directories and return value afterwards; the
\* call returns False before it looks at the directory when no entry is found
delete_user(reg, f, ds, learner_id) ==
    LET data == _load_registry(reg)
        users == Get(data, "users", EmptyList)
        kept == Without(users, learner_id)
    IN  IF Len(kept) = Len(users)
        THEN [registry |-> reg, fs |-> f, dirs |-> ds, ret |-> RetBool(FALSE)]
        ELSE [registry |-> _save_registry(Put(data, "users", kept)),
              fs |-> IF learner_id \in ds THEN [f EXCEPT ![learner_id] = EmptyDir] ELSE f,
              dirs |-> ds \ {learner_id},
              ret |-> RetBool(TRUE)]

GetUser(learner_id) ==
    /\ ret' = get_user(registry, learner_id)
    /\ last' = RegistryCall("get_user", learner_id, EmptyDict)
    /\ UNCHANGED <<fs, dirs, registry, req>>

DeleteUser(learner_id) ==
    LET after == delete_user(registry, fs, dirs, learner_id)
    IN  /\ registry' = after.registry
        /\ fs' = after.fs
        /\ dirs' = after.dirs
        /\ ret' = after.ret
        /\ last' = RegistryCall("delete_user", learner_id, EmptyDict)
        /\ UNCHANGED req

UserIds == {"learner_a", "learner_b"}
UserNames == {"Ann", "Bob"}
UserEmails == {"ann@example.org", None, ""}

RegisterAnyStep ==
    \E l \in UserIds, name \in UserNames, email \in UserEmails,
       created_at \in {NoTime} \cup Times :
        RegisterUser(l, name, email, created_at, MaxTime)

GetUserStep == \E l \in UserIds : GetUser(l)

NextRegistry == RegisterAnyStep \/ GetUserStep \/ ListUsersStep

SpecRegistry == InitEmpty /\ [][NextRegistry]_vars

\* what register_user does to the registry apart from the email: one entry
\* for the id, carrying the name; an existing entry keeps its position and
\* its created_at, a new one is appended; no other entry changes; the call
\* repeated, at any later time, changes nothing
UpsertOf(before, after, c, saved) ==
    LET i == FirstEntry(before, c.l)
        k == FirstEntry(after, c.l)
    IN  /\ Cardinality(EntriesFor(after, c.l)) = 1
        /\ after[k].name = c.doc.name
        /\ Without(after, c.l) = Without(before, c.l)
        /\ i # 0 => k = i /\ Len(after) = Len(before)
                    /\ after[k].created_at = before[i].created_at
        /\ i = 0 => k = Len(before) + 1 /\ Len(after) = Len(before) + 1
        /\ \A t \in {NoTime} \cup Times, now \in Times :
               register_user(saved, c.l, c.doc.name, c.doc.email, t, now) = saved

RenamedEntry ==
    [learner_id |-> "learner_b", name |-> "Bob", email |-> "ann@example.org", created_at |-> 1]

-----------------------------------------------------------------------------
(* Learners created through the repository and the service, the registry    *)
(* synced from their directories, and accounts deleted                      *)

\* the profile initialize_session saves for a new learner
InitialProfiles ==
    [l \in UserIds |-> [learner_id |-> l, name |-> "Ann", email |-> None, created_at |-> 1]]

\* initialize_session draws learner_<hex>; the other endpoints take the id
\* from the request or from the generated profile
AccountIds == UserIds \cup {"test_learner"}

InitializeSessionStep ==
    \E l \in UserIds : save_profile(l, InitialProfiles[l], "none", FALSE)

UpdateProfileStep ==
    \E l \in AccountIds : ServiceWrite("save_profile", "local", l, TestProfile, "none", FALSE)

DeleteUserStep == \E l \in AccountIds : DeleteUser(l)

GetAccountStep == \E l \in AccountIds : GetUser(l)

NextUsers ==
    \/ InitializeSessionStep
    \/ UpdateProfileStep
    \/ SyncStep
    \/ DeleteUserStep
    \/ GetAccountStep

SpecUsers == InitEmpty /\ [][NextUsers]_vars

\* C16: delete_user(id) returns True exactly when the registry held an entry
\* for id; after it returns, whatever it returned, the registry holds no
\* entry for id and the directory memory/<id> does not exist, and every
\* other learner's entry and directory are unchanged.
C16_DeleteUser ==
    [][last'.op = "delete_user" =>
           LET id == last'.l
               before == list_users(registry)
               after == list_users(registry')
           IN  /\ ret' = RetBool(FirstEntry(before, id) # 0)
               /\ EntriesFor(after, id) = {}
               /\ id \notin dirs'
               /\ fs'[id] = EmptyDir
               /\ Without(after, id) = Without(before, id)
               /\ \A d \in AccountIds \ {id} :
                      fs'[d] = fs[d] /\ (d \in dirs' <=> d \in dirs)]_vars

\* when the registry held an entry, the call does all of it
C16_DeleteRegistered ==
    [][(last'.op = "delete_user" /\ ret' = RetBool(TRUE)) =>
           LET id == last'.l
               before == list_users(registry)
               after == list_users(registry')
           IN  /\ FirstEntry(before, id) # 0
               /\ EntriesFor(after, id) = {}
               /\ id \notin dirs'
               /\ fs'[id] = EmptyDir
               /\ Without(after, id) = Without(before, id)
               /\ \A d \in AccountIds \ {id} :
                      fs'[d] = fs[d] /\ (d \in dirs' <=> d \in dirs)]_vars


\* the learner directories whose profile.json decodes
WithProfile(f, ds) == {d \in ds \ {Root} : f[d]["profile.json"].st = "ok"}

\* saving a profile leaves the registry alone, and get_user answers from the
\* registry alone: None as long as no sync has registered the learner
RegistryLags ==
    /\ last'.op = "save_profile" => registry' = registry
    /\ last'.op = "get_user" =>
           /\ ret' = get_user(registry, last'.l)
           /\ EntriesFor(list_users(registry), last'.l) = {} => ret' = RetNone

-----------------------------------------------------------------------------
(* exists, get, save and delete of the repository *)

\* a profile is stored for the learner: get(id) returns it
Stored(l) == get_profile(fs, l, "none") # RetNone

\* C18: in every reachable state exists(id) is True exactly when a profile
\* is stored for id, that is when get(id) / get_profile(id) returns non-None;
\* in particular exists(id) is True right after save(id, profile) with a
\* non-empty profile.
C18_ExistsIffStored ==
    /\ \A l \in FacadeLearners : exists(fs, dirs, l) <=> Stored(l)
    /\ last.op = "exists" => ret = RetBool(Stored(last.l))
    /\ (last.op = "save" /\ ret = RetNone /\ last.doc.data # EmptyDict) =>
           exists(fs, dirs, last.l)

\* exists(id) answers False whatever is stored
C18_ExistsNever ==
    /\ \A l \in FacadeLearners : ~exists(fs, dirs, l)
    /\ last.op = "exists" => ret = RetBool(FALSE)

\* C19: after delete(id) returns, get(id), get_learning_goals(id),
\* get_skill_gaps(id), get_mastery(id) and get_learning_path(id) return None
\* and get_history(id) returns [].
C19_DeleteRemovesAll ==
    last.op = "delete" =>
        /\ \A op \in {"get", "get_learning_goals", "get_skill_gaps", "get_mastery",
                      "get_learning_path"} :
               FacadeReadResult(op, fs, dirs, last.l, "", "none") = RetNone
        /\ get_history(fs, last.l, HistoryLimit, "none") = RetList(EmptyList)

\* delete(id) changes no file of the stores
C19_DeleteKeepsStores ==
    [][last'.op = "delete" => fs' = fs /\ dirs' = dirs]_vars

-----------------------------------------------------------------------------
(* MemoryService in local and in cloud mode *)

\* get_memory_store: None when the mode is not local; the constructor's
\* exception is raised again as MemoryError
GetMemoryStore(mode, l, fault, partial) ==
    /\ fault \in {"none", "mkdir"}
    /\ IF ~is_available(mode)
       THEN /\ fault = "none" /\ ~partial
            /\ ret' = RetNone
            /\ UNCHANGED dirs
       ELSE /\ CanFail(fault, "get_memory_store", l, fs, dirs)
            /\ dirs' = _get_memory_store(dirs, l, fault, partial)
            /\ ret' = IF fault # "none" THEN RetRaise ELSE RetStr("LearnerMemoryStore")
    /\ last' = ServiceCall("get_memory_store", mode, l, EmptyDict, fault, MaxTime)
    /\ UNCHANGED <<fs, registry, req>>

\* get_context_for_llm: {} in cloud mode and without a learner id; in local
\* mode the store is built and memory.read_objectives(), which the store
\* does not define, raises AttributeError, so the answer is {} as well
GetContextForLlm(mode, l, fault, partial) ==
    /\ fault \in {"none", "mkdir"}
    /\ IF ~is_available(mode) \/ ~Truthy(l)
       THEN /\ fault = "none" /\ ~partial
            /\ UNCHANGED dirs
       ELSE /\ CanFail(fault, "get_context_for_llm", l, fs, dirs)
            /\ dirs' = _get_memory_store(dirs, l, fault, partial)
    /\ ret' = RetDict(EmptyDict)
    /\ last' = ServiceCall("get_context_for_llm", mode, l, EmptyDict, fault, MaxTime)
    /\ UNCHANGED <<fs, registry, req>>

\* load_profile_from_memory: the provided profile when it is truthy, else
\* the stored profile in local mode, else {}
load_profile_from_memory(mode, f, l, provided_profile, fault) ==
    IF provided_profile # EmptyDict THEN provided_profile
    ELSE IF ~is_available(mode) \/ ~Truthy(l) \/ fault # "none" THEN EmptyDict
    ELSE read_profile(f, l)

LoadProfileFromMemory(mode, l, provided_profile, fault, partial) ==
    /\ fault \in {"none", "mkdir", "read"}
    /\ IF provided_profile # EmptyDict \/ ~is_available(mode) \/ ~Truthy(l)
       THEN /\ fault = "none" /\ ~partial
            /\ UNCHANGED dirs
       ELSE /\ CanFail(fault, "get_profile", l, fs, dirs)
            /\ dirs' = _get_memory_store(dirs, l, fault, partial)
    /\ ret' = RetDict(load_profile_from_memory(mode, fs, l, provided_profile, fault))
    /\ last' = ServiceCall("load_profile_from_memory", mode, l, provided_profile, fault,
                           MaxTime)
    /\ UNCHANGED <<fs, registry, req>>

ServiceWriteStep ==
    \E op \in ServiceWrites, mode \in StorageModes, l \in ServiceLearners, x \in FaultCases :
        ServiceWrite(op, mode, l, DataOf(op), x[1], x[2])

GetMemoryStoreStep ==
    \E mode \in StorageModes, l \in ServiceLearners \ {None}, x \in FaultCases :
        GetMemoryStore(mode, l, x[1], x[2])

GetContextStep ==
    \E mode \in StorageModes, l \in ServiceLearners, x \in FaultCases :
        GetContextForLlm(mode, l, x[1], x[2])

LoadProfileStep ==
    \E mode \in StorageModes, l \in ServiceLearners, x \in FaultCases :
        \/ LoadProfileFromMemory(mode, l, EmptyDict, x[1], x[2])
        \/ LoadProfileFromMemory(mode, l, TestProfile, x[1], x[2])

NextService ==
    \/ ServiceWriteStep
    \/ GetMemoryStoreStep
    \/ GetContextStep
    \/ LoadProfileStep

SpecService == InitEmpty /\ [][NextService]_vars

\* C20: when the storage mode is not "local", get_memory_store returns None,
\* the writes log_interaction, save_profile, append_mastery_entry and
\* save_learning_path return without raising and leave every file and
\* directory as it was, and get_context_for_llm and load_profile_from_memory
\* (without a provided profile) return {}.
C20_CloudModeNoOp ==
    [][Lower(last'.doc.mode) # "local" =>
           /\ fs' = fs
           /\ dirs' = dirs
           /\ last'.op = "get_memory_store" => ret' = RetNone
           /\ last'.op \in ServiceWrites => ret' = RetNone
           /\ last'.op = "get_context_for_llm" => ret' = RetDict(EmptyDict)
           /\ (last'.op = "load_profile_from_memory" /\ last'.doc.data = EmptyDict) =>
                  ret' = RetDict(EmptyDict)]_vars

\* a profile was saved in local mode, and a cloud-mode load of it answered {}
C20_Witness ==
    /\ last.op = "load_profile_from_memory"
    /\ last.doc.mode = "cloud"
    /\ last.l = "learner_a"
    /\ last.doc.data = EmptyDict
    /\ ret = RetDict(EmptyDict)
    /\ read_profile(fs, "learner_a") = TestProfile

-----------------------------------------------------------------------------
(* MemoryService.get_learner_memory and the store's rendered views *)

\* str.upper() on the roles the model uses
Upper(s) ==
    CASE s = "user" -> "USER"
      [] s = "learner" -> "LEARNER"
      [] s = "tutor" -> "TUTOR"
      [] s = "unknown" -> "UNKNOWN"
      [] OTHER -> s

\* history[-n:] if len(history) > n else history; history[-0:] is history[0:]
Recent(history, n) ==
    IF Len(history) > n /\ n > 0
    THEN SubSeq(history, Len(history) - n + 1, Len(history))
    ELSE history

\* f"**{role}**: {content}"
RenderEntry(entry) ==
    "**" \o Upper(Get(entry, "role", "unknown")) \o "**: " \o Get(entry, "content", "")

RenderLines(history) == [i \in 1..Len(history) |-> RenderEntry(history[i])]

RECURSIVE JoinLines(_)
\* "\n\n".join(lines)
JoinLines(lines) ==
    IF lines = <<>> THEN ""
    ELSE IF Len(lines) = 1 THEN lines[1]
    ELSE lines[1] \o "\n\n" \o JoinLines(Tail(lines))

get_recent_history(f, l, n) == JoinLines(RenderLines(Recent(read_history(f, l), n)))

\* one "## title" section with the document's JSON text
Section(title, doc) == [title |-> title, json |-> JsonDump(doc)]

ContextDocs(f, l) ==
    <<Section("Learner Profile", read_profile(f, l)),
      Section("Learning Goals", read_learning_goals(f, l)),
      Section("Skill Gaps", read_skill_gaps(f, l)),
      Section("Learning Mastery & Performance", read_mastery(f, l))>>

\* LearnerMemoryStore.get_learner_context: the sections of the documents that
\* are not empty, in this order (user_facts.md is never written here)
store_get_learner_context(f, l) ==
    SelectSeq(ContextDocs(f, l), LAMBDA s : s.json # EmptyDict)

\* the methods LearnerMemoryStore and MemoryStore define
StoreMethods ==
    {"read_long_term", "write_long_term", "append_to_long_term", "read_history",
     "write_history", "append_history", "get_memory_context", "get_recent_history",
     "search_history", "clear_history", "clear_memory", "clear_all",
     "read_profile", "write_profile", "read_learning_goals", "write_learning_goals",
     "get_active_goal", "get_active_goal_id", "add_goal", "read_skill_gaps",
     "write_skill_gaps", "read_skill_gaps_for_goal", "write_skill_gaps_for_goal",
     "read_learning_path_for_goal", "write_learning_path_for_goal", "read_mastery",
     "write_mastery", "append_mastery_entry", "update_evaluations",
     "read_learning_path", "write_learning_path", "get_learner_context",
     "log_interaction"}

\* the store methods the bundle of get_learner_memory calls, in turn
BundleCalls ==
    <<"read_profile", "read_objectives", "read_mastery", "read_learning_path",
      "get_learner_context", "get_recent_history">>

MemoryHistory == 20     \* get_recent_history(n=20)

\* get_learner_memory: MemoryError in cloud mode; in local mode every
\* exception of the store is raised again as MemoryError, the AttributeError
\* of a method the store does not define included
get_learner_memory(mode, f, l, fault) ==
    IF ~is_available(mode) THEN RetRaise
    ELSE IF fault # "none" THEN RetRaise
    ELSE IF \E i \in 1..Len(BundleCalls) : BundleCalls[i] \notin StoreMethods THEN RetRaise
    ELSE RetDict([learner_id |-> l,
                  profile |-> read_profile(f, l),
                  mastery |-> read_mastery(f, l),
                  learning_path |-> read_learning_path(f, l),
                  context |-> store_get_learner_context(f, l),
                  recent_history |-> get_recent_history(f, l, MemoryHistory)])

GetLearnerMemory(mode, l, fault, partial) ==
    /\ fault \in {"none", "mkdir", "read"}
    /\ IF ~is_available(mode)
       THEN /\ fault = "none" /\ ~partial
            /\ UNCHANGED dirs
       ELSE /\ CanFail(fault, "get_profile", l, fs, dirs)
            /\ dirs' = _get_memory_store(dirs, l, fault, partial)
    /\ ret' = get_learner_memory(mode, fs, l, fault)
    /\ last' = ServiceCall("get_learner_memory", mode, l, EmptyDict, fault, MaxTime)
    /\ UNCHANGED <<fs, registry, req>>

MemoryLearners == {"learner_a", "learner_b"}

SaveForMemoryStep ==
    \E l \in MemoryLearners, op \in {"save_profile", "log_interaction"}, x \in FaultCases :
        ServiceWrite(op, "local", l, DataOf(op), x[1], x[2])

GetLearnerMemoryStep ==
    \E mode \in StorageModes, l \in MemoryLearners, x \in FaultCases :
        GetLearnerMemory(mode, l, x[1], x[2])

GetContextForMemoryStep ==
    \E mode \in StorageModes, l \in MemoryLearners, x \in FaultCases :
        GetContextForLlm(mode, l, x[1], x[2])

NextMemory ==
    \/ SaveForMemoryStep
    \/ GetLearnerMemoryStep
    \/ GetContextForMemoryStep

SpecMemory == InitEmpty /\ [][NextMemory]_vars

\* the call of last' ran in local mode without a storage fault for a learner
\* whose profile is stored
StoredProfileCall(c, f) ==
    /\ Lower(c.doc.mode) = "local"
    /\ c.doc.fault = "none"
    /\ read_profile(f, c.l) # EmptyDict

\* C21: in local mode, for a learner with a stored profile, get_learner_memory
\* returns a bundle whose profile equals the stored profile and
\* get_context_for_llm returns a non-empty bundle containing that profile;
\* MemoryError is raised only when storage is unavailable or a retrieval fails.
C21_MemoryBundle ==
    [][(last'.op \in {"get_learner_memory", "get_context_for_llm"}
            /\ StoredProfileCall(last', fs)) =>
           /\ "dict" \in DOMAIN ret'
           /\ "profile" \in DOMAIN ret'.dict
           /\ ret'.dict.profile = read_profile(fs, last'.l)]_vars

-----------------------------------------------------------------------------
(* Two learners: calls of the store and of the facade, run whole or step by step *)

\* what a read of the store answers on files f
ReadResult(op, f, l, goal_id) ==
    CASE op = "read_profile" -> RetDict(read_profile(f, l))
      [] op = "read_learning_goals" -> RetDict(read_learning_goals(f, l))
      [] op = "read_skill_gaps" -> RetDict(read_skill_gaps(f, l))
      [] op = "read_skill_gaps_for_goal" -> RetDict(read_skill_gaps_for_goal(f, l, goal_id))
      [] op = "read_learning_path" -> RetDict(read_learning_path(f, l))
      [] op = "read_learning_path_for_goal" ->
            RetDict(read_learning_path_for_goal(f, l, goal_id))
      [] op = "read_mastery" -> RetDict(read_mastery(f, l))
      [] op = "read_history" -> RetList(read_history(f, l))
      [] op = "get_active_goal" -> ActiveGoalOf(read_learning_goals(f, l))
      [] op = "get_active_goal_id" -> ActiveGoalIdOf(read_learning_goals(f, l))

IsolationCalls ==
    UNION {
        {AddGoalCall(l, "Learn Go", None, "goal_d1_a1b2c3", MaxTime),
         AppendHistoryCall(l, "learner", "Hello", EmptyDict, MaxTime)}
        : l \in RaceLearners}

BeginIsolatedStep == \E p \in Procs, c \in IsolationCalls : Begin(p, c, MaxEntries + MaxGoals)

StoreReadStep ==
    \E l \in RaceLearners :
        \/ ReadProfile(l)
        \/ ReadHistory(l)

IsolationReads == {"get_learner_context", "get_history"}

FacadeIsolationStep ==
    \E l \in RaceLearners :
        \/ \E op \in IsolationReads : FacadeRead(op, l, "", "none", FALSE)
        \/ save_learning_path(l, TestPath, "none", FALSE)

NextIsolation ==
    \/ BeginIsolatedStep \/ OpenStep \/ CloseStep
    \/ StoreReadStep
    \/ FacadeIsolationStep

SpecIsolation == InitRace /\ [][NextIsolation]_vars

\* the requests that took a step
Stepped == {p \in Procs : req'[p] # req[p]}

\* the learner ids the step was made for
Actors == IF req' = req THEN {last'.l} ELSE {req'[p].call.l : p \in Stepped}

\* the files with every directory but the learner's own emptied
Alone(f, l) == [d \in DOMAIN f |-> IF d = memory_dir(l) THEN f[d] ELSE EmptyDir]

\* the step's answer and the document it built are those it gives when no
\* other learner has any document
ReadsOwnOnly ==
    /\ (req' = req /\ last'.op \in ReadOps) =>
            ret' = ReadResult(last'.op, Alone(fs, last'.l), last'.l, last'.goal)
    /\ (req' = req /\ last'.op \in FacadeReads) =>
            ret' = FacadeReadResult(last'.op, Alone(fs, last'.l), dirs, last'.l,
                                    last'.goal, "none")
    /\ (req' = req /\ last'.op = "save_learning_path") =>
            fs'[memory_dir(last'.l)] =
                StoreWrite(last'.op, Alone(fs, last'.l), last'.l, last'.doc.data,
                           last'.doc.now)[memory_dir(last'.l)]
    /\ \A p \in Stepped :
            req'[p].pc = "read" =>
                req'[p].new[TargetFile(req'[p].call)] =
                    NewContent(req'[p].call, Alone(fs, req'[p].call.l))

\* C22: for two distinct learner ids A and B, no store or facade operation
\* invoked for A (read, write, append or add_goal), run whole or interleaved
\* with other requests, reads from or changes any document of B.
C22_LearnerIsolation ==
    [][/\ \A b \in Learners : b \notin Actors => fs'[memory_dir(b)] = fs[memory_dir(b)]
       /\ ReadsOwnOnly]_vars

\* learner_b's requests wrote its documents and its context was read, while
\* learner_a's documents are what they were
C22_Witness ==
    /\ last.op = "get_learner_context"
    /\ last.l = "learner_b"
    /\ read_learning_path(fs, "learner_b") = TestPath
    /\ \E p \in Procs : req[p].pc = "done" /\ req[p].call.l = "learner_b"
    /\ fs["learner_a"] = RaceFs0["learner_a"]
    /\ read_history(fs, "learner_a") # EmptyList

-----------------------------------------------------------------------------
(* add_goal as seen in the ledger before and after the call *)

\* the records before are the first records after, status apart
KeptButStatus(before, after) ==
    /\ Len(after) >= Len(before)
    /\ \A i \in 1..Len(before) : [after[i] EXCEPT !.status = before[i].status] = before[i]

\* C23: each add_goal appends exactly one record at the end of goals, also
\* when its text is that of an existing goal; the new record has created_at
\* equal to updated_at and a goal_id no existing record has; the existing
\* records keep their order and every field except status.
C23_AddGoalAppendsFresh ==
    [][(last'.op = "add_goal" /\ Scoped(last'.l)) =>
           LET before == GoalsOf(fs, last'.l)
               after == GoalsOf(fs', last'.l)
           IN  /\ Len(after) = Len(before) + 1
               /\ KeptButStatus(before, after)
               /\ after[Len(after)].created_at = after[Len(after)].updated_at
               /\ \A i \in 1..Len(before) : before[i].goal_id # after[Len(after)].goal_id]_vars

\* the same without the freshness of the id: one record more, at the end,
\* the earlier ones kept
C23_AddGoalAppends ==
    [][(last'.op = "add_goal" /\ Scoped(last'.l)) =>
           LET before == GoalsOf(fs, last'.l)
               after == GoalsOf(fs', last'.l)
           IN  /\ Len(after) = Len(before) + 1
               /\ KeptButStatus(before, after)
               /\ after[Len(after)].created_at = after[Len(after)].updated_at
               /\ after[Len(after)].learning_goal = last'.doc.learning_goal]_vars

-----------------------------------------------------------------------------
(* mastery.json: the entries log next to the evaluations *)

MasteryBases == {[level |-> "beginner"]}

EvaluationInputs == {[overall_score |-> 85], [overall_score |-> 85, timestamp |-> 1]}

WriteMasteryBaseStep == \E d \in MasteryBases : WriteMastery("learner_a", d)

AppendEntryStep ==
    \E e \in MasteryEntries, now \in Times : AppendMasteryEntry("learner_a", e, now)

UpdateEvaluationStep ==
    \E l \in {"learner_a", NoLearner}, e \in EvaluationInputs, now \in Times :
        UpdateEvaluations(l, e, now)

NextMastery ==
    \/ WriteMasteryBaseStep \/ AppendEntryStep \/ UpdateEvaluationStep \/ ReadMasteryStep

SpecMastery == InitEmpty /\ [][NextMastery]_vars

EvaluationsOf(f, l) == Get(read_mastery(f, l), "evaluations_history", EmptyList)

\* after has the keys of before and the written ones, the others with their values
OnlyKeysChanged(before, after, written) ==
    /\ DOMAIN after = DOMAIN before \cup written
    /\ \A k \in DOMAIN before \ written : after[k] = before[k]

\* append_mastery_entry changes "entries" only, by one element at the end
EntryAppendAlone ==
    (last'.op = "append_mastery_entry" /\ Scoped(last'.l)) =>
        /\ OnlyKeysChanged(read_mastery(fs, last'.l), read_mastery(fs', last'.l), {"entries"})
        /\ ExtendsByOne(EntriesOf(fs, last'.l), EntriesOf(fs', last'.l))

\* update_evaluations changes last_evaluation and evaluations_history only;
\* logged is the element the history gains
EvaluationAlone(logged) ==
    (last'.op = "update_evaluations" /\ Scoped(last'.l)) =>
        /\ OnlyKeysChanged(read_mastery(fs, last'.l), read_mastery(fs', last'.l),
                           {"last_evaluation", "evaluations_history"})
        /\ read_mastery(fs', last'.l).last_evaluation = last'.doc.data
        /\ ExtendsByOne(EvaluationsOf(fs, last'.l), EvaluationsOf(fs', last'.l))
        /\ EvaluationsOf(fs', last'.l)[Len(EvaluationsOf(fs', last'.l))] = logged

\* C24: append_mastery_entry changes only "entries" and leaves
\* last_evaluation, evaluations_history and every other key of mastery.json
\* unchanged; update_evaluations(e) leaves "entries" unchanged, sets
\* last_evaluation to e and appends exactly one element to
\* evaluations_history, equal to e plus an injected timestamp.
C24_PathsIndependent ==
    [][/\ EntryAppendAlone
       /\ EvaluationAlone(Put(last'.doc.data, "timestamp", last'.doc.now))]_vars

\* C24, amended: as above on a learner-scoped store, the element appended to
\* evaluations_history being e itself when e carries a timestamp, and e
\* with the clock's timestamp added when it carries none.
C24_PathsIndependentStamped ==
    [][/\ EntryAppendAlone
       /\ EvaluationAlone(IF "timestamp" \in DOMAIN last'.doc.data
                          THEN last'.doc.data
                          ELSE Put(last'.doc.data, "timestamp", last'.doc.now))]_vars

\* an evaluation that carries its own timestamp was logged next to entries
\* and another key of the document
C24_Witness ==
    /\ last.op = "update_evaluations"
    /\ last.l = "learner_a"
    /\ "timestamp" \in DOMAIN last.doc.data
    /\ last.doc.data.timestamp # last.doc.now
    /\ Len(EntriesOf(fs, "learner_a")) >= 1
    /\ Len(EvaluationsOf(fs, "learner_a")) >= 2
    /\ "level" \in DOMAIN read_mastery(fs, "learner_a")

-----------------------------------------------------------------------------
(* schedule-learning-path and reschedule-learning-path: the handler reads   *)
(* the active goal, lets the LLM generate a path, and then asks the ledger  *)
(* for the active goal id again to persist it.  Other requests (another     *)
(* worker process on the same workspace) run between the two parts.         *)

ScheduleKinds == {"schedule_learning_path", "reschedule_learning_path"}

SessionCounts == {0, 3}

\* what a handler carries from its first part to its second
ScheduleArgs == [read_goal |-> None, session_count |-> 0, now |-> 1]

\* the path the LLM returns: it names the goal whose refined_goal and skill
\* gaps were in the profile it was given
Generated(read_goal) == PyList(<<read_goal>>)

\* goal_id of get_active_goal(), the goal the handler enriches the profile from
ReadGoalOf(goals_data) ==
    LET active_goal == ActiveGoalOf(goals_data)
    IN  IF active_goal = RetNone THEN None ELSE Get(active_goal.dict, "goal_id", None)

\* memory_store.get_active_goal_id() at the persistence step
PersistKey(c, goals_data) == Get(goals_data, "active_goal_id", None)

\* request.session_count, or for a reschedule without one the stored count
SessionCountOf(c, existing_path_data) ==
    IF c.op = "schedule_learning_path" \/ c.doc.session_count > 0
    THEN c.doc.session_count
    ELSE Get(existing_path_data, "session_count", 0)

\* first part: get_memory_store, get_active_goal, read_skill_gaps_for_goal
ScheduleBegin(p, kind, l, session_count, now) ==
    /\ req[p].pc = "idle"
    /\ Len(read_history(fs, l)) + Cardinality({q \in Procs : req[q].pc = "generate"})
         < MaxEntries
    /\ dirs' = ensure_dir(dirs, l)
    /\ req' = [req EXCEPT ![p] =
                [pc |-> "generate",
                 call |-> Call(kind, l, "",
                               [ScheduleArgs EXCEPT
                                   !.read_goal = ReadGoalOf(read_learning_goals(fs, l)),
                                   !.session_count = session_count, !.now = now])]]
    /\ UNCHANGED <<fs, registry, ret, last>>

\* second part: the path is written under the active goal id, or unscoped
\* when there is none, and the interaction is logged
SchedulePersist(p) ==
    /\ req[p].pc = "generate"
    /\ LET c == req[p].call
           goal_id == PersistKey(c, read_learning_goals(fs, c.l))
           path == Generated(c.doc.read_goal)
           data == [learning_path |-> path,
                    session_count |->
                        SessionCountOf(c, read_learning_path_for_goal(fs, c.l, goal_id))]
           written ==
               IF Truthy(goal_id)
               THEN write_learning_path(fs, c.l,
                        GoalScopedData(read_learning_path(fs, c.l), goal_id, data, c.doc.now))
               ELSE write_learning_path(fs, c.l, path)
       IN  /\ fs' = write_history(written, c.l,
                        AppendHistoryData(read_history(written, c.l), "system",
                                          "Learning path scheduled", EmptyDict, c.doc.now))
           /\ ret' = RetDict([learning_path |-> path])
           /\ last' = [c EXCEPT !.goal = IF Truthy(goal_id) THEN goal_id ELSE ""]
    /\ req' = [req EXCEPT ![p] = Idle]
    /\ UNCHANGED <<dirs, registry>>

ScheduleBeginStep ==
    \E p \in Procs, kind \in ScheduleKinds, n \in SessionCounts :
        ScheduleBegin(p, kind, "learner_a", n, MaxTime)

SchedulePersistStep == \E p \in Procs : SchedulePersist(p)

SetGoalStep ==
    \E g \in LedgerIds, t \in GoalTexts : add_goal("learner_a", t, None, g, 1)

NextSchedule == ScheduleBeginStep \/ SchedulePersistStep \/ SetGoalStep

SpecSchedule == InitEmpty /\ [][NextSchedule]_vars

\* C25: the learning path persisted by schedule-learning-path and
\* reschedule-learning-path is stored under the goal_id of the goal whose
\* refined_goal and skill gaps were read to generate it, also when another
\* request runs add_goal for the learner between the handler's read of the
\* active goal and its persistence step; the unscoped document is written
\* only when the learner has no active goal id.
C25_PathUnderReadGoal ==
    [][(last'.op \in ScheduleKinds /\ req' # req) =>
           /\ Truthy(last'.doc.read_goal) =>
                /\ last'.goal = last'.doc.read_goal
                /\ read_learning_path_for_goal(fs', last'.l, last'.doc.read_goal).learning_path
                     = Generated(last'.doc.read_goal)
           /\ last'.goal = "" =>
                ~Truthy(Get(read_learning_goals(fs, last'.l), "active_goal_id", None))]_vars

\* the path is stored under the goal id that is active when it is persisted
C25_PathUnderActiveGoal ==
    [][(last'.op \in ScheduleKinds /\ req' # req) =>
           LET active == Get(read_learning_goals(fs, last'.l), "active_goal_id", None)
           IN  IF Truthy(active)
               THEN /\ last'.goal = active
                    /\ read_learning_path_for_goal(fs', last'.l, active).learning_path
                         = Generated(last'.doc.read_goal)
               ELSE /\ last'.goal = ""
                    /\ read_learning_path(fs', last'.l) = Generated(last'.doc.read_goal)]_vars

-----------------------------------------------------------------------------
(* learning_path.json holds the unscoped path and the goal-keyed paths *)

\* a document as it is read back after json.dump
AsStored(d) == JsonLoad(JsonDump(d))

\* C26: write_learning_path_for_goal(g, P) keeps every top-level key already
\* in learning_path.json, so read_learning_path() afterwards returns the
\* earlier content plus the key g; write_learning_path(D) replaces the whole
\* file, so afterwards read_learning_path_for_goal(g) returns {} for every
\* goal g that is not a key of D.
C26_SharedPathFile ==
    [][/\ (last'.op = "write_learning_path_for_goal" /\ Scoped(last'.l)) =>
            LET before == read_learning_path(fs, last'.l)
                after == read_learning_path(fs', last'.l)
            IN  /\ DOMAIN after = DOMAIN before \cup {last'.goal}
                /\ \A k \in DOMAIN before \ {last'.goal} : after[k] = before[k]
                /\ after[last'.goal] =
                     AsStored(Put(last'.doc.data, "updated_at", last'.doc.now))
       /\ (last'.op = "write_learning_path" /\ Scoped(last'.l)) =>
            /\ read_learning_path(fs', last'.l) = AsStored(last'.doc.data)
            /\ \A g \in GoalIds \ DOMAIN last'.doc.data :
                    read_learning_path_for_goal(fs', last'.l, g) = EmptyDict]_vars

\* a goal's path was written into a file that holds the unscoped path and
\* another goal's path, and all three are read back
C26_Witness ==
    /\ last.op = "write_learning_path_for_goal"
    /\ Scoped(last.l)
    /\ "modules" \in DOMAIN read_learning_path(fs, last.l)
    /\ read_learning_path_for_goal(fs, last.l, last.goal) # EmptyDict
    /\ \E B \in GoalIds \ {last.goal} : read_learning_path_for_goal(fs, last.l, B) # EmptyDict

-----------------------------------------------------------------------------
(* Damaged document files.  A write that stops midway leaves a truncated     *)
(* file; json.dump writes non-ASCII characters as they are                   *)
(* (ensure_ascii=False), so the cut can fall inside a multi-byte character   *)
(* and leave bytes that are no UTF-8 text.                                   *)

\* bytes that open(path, 'r', encoding='utf-8') cannot decode
Garbled == [st |-> "garbled"]

\* text that is no JSON document, or bytes that are no text
Damages == {Corrupt, Garbled}

\* the file the store's call opens
StoreFile(op) ==
    CASE op = "read_profile" -> "profile.json"
      [] op \in {"read_learning_goals", "get_active_goal", "get_active_goal_id", "add_goal"} ->
            "learning_goal.json"
      [] op \in {"read_skill_gaps", "read_skill_gaps_for_goal", "write_skill_gaps_for_goal"} ->
            "skill_gaps.json"
      [] op \in {"read_learning_path", "read_learning_path_for_goal",
                 "write_learning_path_for_goal"} -> "learning_path.json"
      [] op \in {"read_mastery", "append_mastery_entry"} -> "mastery.json"
      [] op \in {"read_history", "append_history"} -> "chat_history.json"

\* json.load raises JSONDecodeError, which the reads catch
JsonError(f, l, file) == HasAttr(l, file) /\ FileOf(f, l, file).st \in {"empty", "corrupt"}

\* f.read() raises UnicodeDecodeError, a ValueError that neither
\* `except json.JSONDecodeError` nor `except (json.JSONDecodeError, IOError)` catches
DecodeError(f, l, file) == HasAttr(l, file) /\ FileOf(f, l, file).st = "garbled"

\* a read of the store, from the file test to the return or the exception
StoreRead(op, l, goal_id) ==
    /\ dirs' = ensure_dir(dirs, l)
    /\ ret' = IF DecodeError(fs, l, StoreFile(op)) THEN RetRaise
              ELSE ReadResult(op, fs, l, goal_id)
    /\ last' = Call(op, l, goal_id, EmptyDict)
    /\ UNCHANGED <<fs, registry, req>>

\* a read-modify-write call of the store: the exception of its read ends it
StoreUpdate(c, bound) ==
    /\ SizeBefore(c, fs) < bound
    /\ dirs' = ensure_dir(dirs, c.l)
    /\ IF DecodeError(fs, c.l, TargetFile(c))
       THEN /\ ret' = RetRaise
            /\ UNCHANGED fs
       ELSE /\ ret' = ReturnOf(c)
            /\ fs' = Applied(fs, c)
    /\ last' = c
    /\ UNCHANGED <<registry, req>>

\* a document file is left damaged by a write that did not finish
Damage(l, file, damage) ==
    /\ FileOf(fs, l, file).st = "ok"
    /\ fs' = [fs EXCEPT ![memory_dir(l)][file] = damage]
    /\ last' = Call("damage", l, file, EmptyDict)
    /\ UNCHANGED <<dirs, registry, req, ret>>

DamagedReads ==
    {"read_learning_goals", "get_active_goal", "read_history", "read_mastery",
     "read_skill_gaps_for_goal", "read_learning_path_for_goal"}

UpdateCalls ==
    {AddGoalCall("learner_a", "Learn Go", None, "goal_d1_a1b2c3", MaxTime),
     AppendHistoryCall("learner_a", "learner", "Hello", EmptyDict, MaxTime),
     DataCall("append_mastery_entry", "learner_a", "", [topic |-> "Recursion"], MaxTime),
     DataCall("write_skill_gaps_for_goal", "learner_a", "goal_d1_a1b2c3",
              [skill_gaps |-> PyList(<<"testing">>)], MaxTime),
     DataCall("write_learning_path_for_goal", "learner_a", "goal_d1_a1b2c3",
              [learning_path |-> PyList(<<"s1">>)], MaxTime)}

UpdateOps == {"add_goal", "append_history", "append_mastery_entry",
              "write_skill_gaps_for_goal", "write_learning_path_for_goal"}

DamagedReadStep == \E op \in DamagedReads : StoreRead(op, "learner_a", "goal_d1_a1b2c3")

UpdateStep == \E c \in UpdateCalls : StoreUpdate(c, MaxEntries)

DamageStep == \E file \in FileNames, damage \in Damages : Damage("learner_a", file, damage)

NextDamaged == DamagedReadStep \/ UpdateStep \/ DamageStep

SpecDamaged == InitEmpty /\ [][NextDamaged]_vars

\* the call read an empty document and returned: what it wrote holds its own
\* entry only
OwnEntryOnly(c, f) == FileOf(f, c.l, TargetFile(c)) = Ok(NewContent(c, EmptyFs))

\* C27: when a document file holds undecodable (corrupt or truncated) JSON,
\* every read of it returns the empty sentinel without raising and without
\* changing the file; a following add_goal, append_history,
\* append_mastery_entry or write_*_for_goal completes normally and persists
\* a document that contains only its own new entry.
C27_DamagedReadsEmpty ==
    [][/\ (last'.op \in DamagedReads
             /\ FileOf(fs, last'.l, StoreFile(last'.op)).st \in {"empty", "corrupt", "garbled"}) =>
            (ret' = Sentinel(last'.op) /\ fs' = fs)
       /\ (last'.op \in UpdateOps
             /\ FileOf(fs, last'.l, StoreFile(last'.op)).st \in {"empty", "corrupt", "garbled"}) =>
            (ret' = ReturnOf(last') /\ OwnEntryOnly(last', fs'))]_vars

\* the same for the files json.load rejects: text that is no JSON document
C27_JsonErrorsReadEmpty ==
    [][/\ (last'.op \in DamagedReads /\ JsonError(fs, last'.l, StoreFile(last'.op))) =>
            (ret' = Sentinel(last'.op) /\ fs' = fs)
       /\ (last'.op \in UpdateOps /\ JsonError(fs, last'.l, StoreFile(last'.op))) =>
            (ret' = ReturnOf(last') /\ OwnEntryOnly(last', fs'))]_vars

-----------------------------------------------------------------------------
(* delete_user next to sync_from_disk.  delete_user saves the registry and  *)
(* removes the directory afterwards; a sync of another request can run      *)
(* between the two.                                                         *)

Registered(reg, learner_id) == EntriesFor(list_users(reg), learner_id) # {}

\* delete_user up to _save_registry: False is returned when no entry is found
DeleteBegin(p, learner_id) ==
    /\ req[p].pc = "idle"
    /\ IF ~Registered(registry, learner_id)
       THEN /\ ret' = RetBool(FALSE)
            /\ last' = RegistryCall("delete_user", learner_id, EmptyDict)
            /\ UNCHANGED <<registry, req>>
       ELSE /\ registry' = _save_registry(
                              Put(_load_registry(registry), "users",
                                  Without(list_users(registry), learner_id)))
            /\ req' = [req EXCEPT ![p] =
                        [pc |-> "rmtree",
                         call |-> RegistryCall("delete_user", learner_id, EmptyDict)]]
            /\ UNCHANGED <<ret, last>>
    /\ UNCHANGED <<fs, dirs>>

\* delete_user from memory_dir.exists() on: the directory is removed, True is returned
DeleteFinish(p) ==
    /\ req[p].pc = "rmtree"
    /\ LET learner_id == req[p].call.l
       IN  /\ fs' = IF learner_id \in dirs THEN [fs EXCEPT ![learner_id] = EmptyDir] ELSE fs
           /\ dirs' = dirs \ {learner_id}
    /\ ret' = RetBool(TRUE)
    /\ last' = req[p].call
    /\ req' = [req EXCEPT ![p] = Idle]
    /\ UNCHANGED registry

DeleteBeginStep == \E p \in Procs, l \in UserIds : DeleteBegin(p, l)

DeleteFinishStep == \E p \in Procs : DeleteFinish(p)

\* a profile is written into a learner's directory; its learner_id field is
\* that learner's or another one's
SaveNamedProfileStep ==
    \E l \in UserIds, named \in UserIds : WriteProfile(l, InitialProfiles[named])

NextDeleted == SaveNamedProfileStep \/ SyncStep \/ DeleteBeginStep \/ DeleteFinishStep

SpecDeleted == InitEmpty /\ [][NextDeleted]_vars

\* C28: a deleted user stays deleted: after delete_user(id) returned True,
\* and with no later write for that learner, the registry holds no entry
\* for id, and a following sync_from_disk leaves id absent, for every
\* on-disk state (directories whose profile.json carries another learner_id
\* included) and every interleaving of the delete with a sync_from_disk.
C28_DeletedStaysDeleted ==
    [][/\ (last'.op = "delete_user" /\ ret' = RetBool(TRUE)) =>
            ~Registered(registry', last'.l)
       /\ (last.op = "delete_user" /\ ret = RetBool(TRUE) /\ last'.op = "sync_from_disk") =>
            ~Registered(registry', last.l)]_vars

\* every profile on disk names the directory it is in, or no learner
ProfilesNameTheirDirectory ==
    \A d \in WithProfile(fs, dirs) : Get(ProfileOf(d), "learner_id", d) = d

\* when the delete left no entry (no sync ran inside it) and every profile
\* names its own directory, the next sync leaves the deleted id absent
C28_StaysDeletedAlone ==
    [][(/\ ProfilesNameTheirDirectory
        /\ ~Registered(registry, last.l)
        /\ last.op = "delete_user" /\ ret = RetBool(TRUE)
        /\ last'.op = "sync_from_disk") =>
           ~Registered(registry', last.l)]_vars

-----------------------------------------------------------------------------
(* chat-with-tutor: the handler hands the store to the chatbot, which logs  *)
(* the turn, and logs the turn itself through MemoryService afterwards      *)

\* str.strip() on the contents the model uses
Strip(s) == IF s = " Hello " THEN "Hello" ELSE s

RECURSIVE _last_user_query(_)
\* content of the last message whose role is "user", stripped
_last_user_query(messages) ==
    IF messages = <<>> THEN ""
    ELSE LET m == messages[Len(messages)]
         IN  IF Lower(Get(m, "role", "")) = "user"
             THEN Strip(Get(m, "content", ""))
             ELSE _last_user_query(SubSeq(messages, 1, Len(messages) - 1))

\* messages holds no user message: the content of its last message
LastUserQuery(messages) ==
    IF \E i \in 1..Len(messages) : Lower(Get(messages[i], "role", "")) = "user"
    THEN _last_user_query(messages)
    ELSE IF messages = <<>> THEN ""
    ELSE Strip(Get(messages[Len(messages)], "content", ""))

\* LearnerMemoryStore.log_interaction(role, content) on the files f
LogInteraction(f, l, role, content, now) ==
    write_history(f, l, AppendHistoryData(read_history(f, l), role, content, EmptyDict, now))

\* AITutorChatbot.chat: with a store and a query, the query and the reply are logged
ChatbotLogs(f, l, has_store, messages, reply, now) ==
    IF has_store /\ LastUserQuery(messages) # ""
    THEN LogInteraction(LogInteraction(f, l, "learner", LastUserQuery(messages), now),
                        l, "tutor", reply, now)
    ELSE f

\* the handler's own logging: MemoryService.log_interaction twice when the
\* last message has content; nothing happens without a store
HandlerLogs(f, l, has_store, last_message, response, now) ==
    IF has_store /\ Get(last_message, "content", "") # ""
    THEN LogInteraction(LogInteraction(f, l, "learner", last_message.content, now),
                        l, "tutor", response, now)
    ELSE f

ChatArgs == [mode |-> "local", role |-> "", content |-> "", reply |-> "", now |-> 1]

\* one chat-with-tutor request, from the parsed messages to the response
chat_with_tutor(l, mode, messages, reply, now) ==
    LET last_message == IF messages = <<>> THEN EmptyDict ELSE messages[Len(messages)]
        has_store == Truthy(l) /\ is_available(mode)
    IN  /\ has_store => Len(read_history(fs, l)) < MaxEntries
        /\ dirs' = IF has_store THEN ensure_dir(dirs, l) ELSE dirs
        /\ fs' = HandlerLogs(ChatbotLogs(fs, l, has_store, messages, reply, now),
                             l, has_store, last_message, reply, now)
        /\ ret' = RetStr(reply)
        /\ last' = Call("chat_with_tutor", l, "",
                        [ChatArgs EXCEPT !.mode = mode,
                                         !.role = Get(last_message, "role", ""),
                                         !.content = Get(last_message, "content", ""),
                                         !.reply = reply, !.now = now])
        /\ UNCHANGED <<registry, req>>

UserHello == [role |-> "user", content |-> "Hello"]
UserPadded == [role |-> "user", content |-> " Hello "]
UserSilent == [role |-> "user", content |-> ""]
TutorTurn == [role |-> "assistant", content |-> "Welcome"]

Conversations ==
    {<<>>, <<UserHello>>, <<UserPadded>>, <<UserSilent>>, <<UserHello, TutorTurn>>}

Replies == {"Welcome", "Let us begin"}

ChatStep ==
    \E l \in ServiceLearners, mode \in StorageModes,
       messages \in Conversations, reply \in Replies, now \in Times :
        chat_with_tutor(l, mode, messages, reply, now)

NextChat == ChatStep \/ ReadHistoryStep

SpecChat == InitEmpty /\ [][NextChat]_vars

\* the entries the history gained
Gained(before, after) == SubSeq(after, Len(before) + 1, Len(after))

Turn(entries, i) == <<entries[i].role, entries[i].content>>

\* C29: one chat-with-tutor request in local mode, with a learner id and a
\* non-empty last user message, appends exactly two entries to the learner's
\* history: role "learner" with the user's message, then role "tutor" with
\* the reply.
C29_ChatLogsTwo ==
    [][(/\ last'.op = "chat_with_tutor"
        /\ Lower(last'.doc.mode) = "local"
        /\ Truthy(last'.l)
        /\ last'.doc.role = "user"
        /\ last'.doc.content # "") =>
           LET before == read_history(fs, last'.l)
               after == read_history(fs', last'.l)
           IN  /\ Len(after) = Len(before) + 2
               /\ SubSeq(after, 1, Len(before)) = before
               /\ Turn(after, Len(before) + 1) = <<"learner", last'.doc.content>>
               /\ Turn(after, Len(before) + 2) = <<"tutor", last'.doc.reply>>]_vars

\* the same request appends four entries: the chatbot's pair, with the
\* stripped message, and the handler's pair
C29_ChatLogsFour ==
    [][(/\ last'.op = "chat_with_tutor"
        /\ Lower(last'.doc.mode) = "local"
        /\ Truthy(last'.l)
        /\ last'.doc.role = "user"
        /\ last'.doc.content # "") =>
           LET before == read_history(fs, last'.l)
               got == Gained(before, read_history(fs', last'.l))
           IN  /\ SubSeq(read_history(fs', last'.l), 1, Len(before)) = before
               /\ Len(got) = 4
               /\ Turn(got, 1) = <<"learner", Strip(last'.doc.content)>>
               /\ Turn(got, 2) = <<"tutor", last'.doc.reply>>
               /\ Turn(got, 3) = <<"learner", last'.doc.content>>
               /\ Turn(got, 4) = <<"tutor", last'.doc.reply>>]_vars

-----------------------------------------------------------------------------
(* The window of recent entries: get_recent_history(n) of the store, and    *)
(* get_history(learner_id, limit) and get_learner_context of the facade     *)

RecentArgs == [n |-> 0]

\* LearnerMemoryStore.get_recent_history(n)
GetRecentHistory(l, n) ==
    /\ dirs' = ensure_dir(dirs, l)
    /\ ret' = RetStr(get_recent_history(fs, l, n))
    /\ last' = Call("get_recent_history", l, "", [RecentArgs EXCEPT !.n = n])
    /\ UNCHANGED <<fs, registry, req>>

\* LearnerRepository.get_history(learner_id, limit), no call failing
GetHistory(l, limit) ==
    /\ dirs' = ensure_dir(dirs, l)
    /\ ret' = get_history(fs, l, limit, "none")
    /\ last' = Call("get_history", l, "", [RecentArgs EXCEPT !.n = limit])
    /\ UNCHANGED <<fs, registry, req>>

\* a history longer than the window of get_learner_context
LongHistory ==
    [i \in 1..(ContextLimit + 2) |->
        HistoryEntry(IF i % 2 = 1 THEN "learner" ELSE "tutor",
                     IF i % 3 = 0 THEN "Welcome" ELSE "Hello", EmptyDict, 1)]

Windows == 0..(MaxEntries + 1)

RecentAppendStep ==
    \E role \in {"learner", "tutor"}, content \in {"Hello", "Welcome"} :
        AppendHistory("learner_a", role, content, EmptyDict, MaxTime)

WriteLongHistoryStep ==
    Writing("write_history", "learner_a", EmptyDict,
            write_history(fs, "learner_a", LongHistory))

GetRecentHistoryStep == \E n \in Windows \cup {ContextLimit} : GetRecentHistory("learner_a", n)

GetHistoryStep == \E limit \in Windows \cup {ContextLimit} : GetHistory("learner_a", limit)

GetLearnerContextStep == FacadeRead("get_learner_context", "learner_a", "", "none", FALSE)

NextRecent ==
    \/ RecentAppendStep \/ WriteLongHistoryStep
    \/ GetRecentHistoryStep \/ GetHistoryStep \/ GetLearnerContextStep

SpecRecent == InitEmpty /\ [][NextRecent]_vars

Smaller(a, b) == IF a < b THEN a ELSE b

\* the last k entries, in insertion order
LastEntries(history, k) == SubSeq(history, Len(history) - k + 1, Len(history))

\* C30: get_recent_history(n) renders exactly the last min(n, L) entries of a
\* history of length L in insertion order, none when n is 0; get_history with
\* limit > 0 returns the last min(limit, L) entries; get_learner_context
\* carries at most the 10 most recent entries.
C30_RecentWindow ==
    [][LET history == read_history(fs, last'.l)
       IN  /\ (last'.op = "get_recent_history") =>
                   ret' = RetStr(JoinLines(RenderLines(
                              LastEntries(history, Smaller(last'.doc.n, Len(history))))))
           /\ (last'.op = "get_history" /\ last'.doc.n > 0) =>
                   ret' = RetList(LastEntries(history, Smaller(last'.doc.n, Len(history))))
           /\ (last'.op = "get_learner_context") =>
                   ret'.dict.recent_history =
                       LastEntries(history, Smaller(ContextLimit, Len(history)))]_vars

\* the same with n > 0: get_recent_history(0) renders the whole history
C30_RecentWindowPositive ==
    [][LET history == read_history(fs, last'.l)
       IN  /\ (last'.op = "get_recent_history") =>
                   ret' = RetStr(JoinLines(RenderLines(
                              IF last'.doc.n > 0
                              THEN LastEntries(history, Smaller(last'.doc.n, Len(history)))
                              ELSE history)))
           /\ (last'.op = "get_history" /\ last'.doc.n > 0) =>
                   ret' = RetList(LastEntries(history, Smaller(last'.doc.n, Len(history))))
           /\ (last'.op = "get_learner_context") =>
                   /\ Len(ret'.dict.recent_history) <= ContextLimit
                   /\ ret'.dict.recent_history =
                          LastEntries(history, Smaller(ContextLimit, Len(history)))]_vars

====
